---- MODULE Spec2Model ----
(***************************************************************************)
(* Model of acid_io's core I/O layer (src/src/io_core.rs): the Read,       *)
(* Write, Seek and BufRead default methods, the Take and Chain adapters    *)
(* and the in-memory Cursor.                                               *)
(*                                                                         *)
(* Byte containers are sequences of small naturals.  A reader that is not  *)
(* one of the crate's own types is modelled by the Read/Write trait        *)
(* contract: it may return any count 0 <= n <= dst.len(), or an error      *)
(* without side effect.                                                    *)
(***************************************************************************)
EXTENDS Integers, Sequences, FiniteSets, TLC

VARIABLES take, tkg, chain, chg, rx, wa, cursor, cug, sl, ru, by, bs, hints,
          on, res

vars == <<take, tkg, chain, chg, rx, wa, cursor, cug, sl, ru, by, bs, hints,
          on, res>>

(***************************************************************************)
(* Bounds                                                                  *)
(***************************************************************************)
\* longest byte source / container
MaxSrc == 3
\* largest Take limit
MaxLimit == 4
\* longest caller-supplied buffer
MaxDst == 2
\* most buffers in one vectored call
MaxBufs == 2
\* times the first stream of a Chain gets more bytes after its end-of-data
MaxRefill == 1
\* most writes made through one Cursor
MaxWrites == 2
\* most Interrupted results one derived operation is made to retry
MaxIntr == 2
\* width of the machine word standing for u64 / i64
WordBits == 4

\* longest source of a delimiter scan
MaxScan == 5

\* most read_until calls on one source
MaxCalls == 4

\* u64 is modelled as a WordBits-bit unsigned word, i64 as its signed twin
U64Modulus == 2 ^ WordBits

U64Max == U64Modulus - 1

I64Min == -(U64Modulus \div 2)

I64Max == (U64Modulus \div 2) - 1

(***************************************************************************)
(* Helpers                                                                 *)
(***************************************************************************)
Min(a, b) == IF a <= b THEN a ELSE b

\* seq[..n]
Prefix(s, n) == SubSeq(s, 1, n)

\* seq[n..]
Suffix(s, n) == SubSeq(s, n + 1, Len(s))

\* the bytes b"..." of a source of length n, all distinct, starting at value lo
BytesFrom(lo, n) == [i \in 1..n |-> lo + i - 1]

\* Result<usize> values, with the bytes a read delivered and whether the
\* wrapped reader was invoked by the call
Ok(op, n, data, called) ==
    [op |-> op, ok |-> TRUE, err |-> "", n |-> n, data |-> data, called |-> called]

Err(op, kind, called) ==
    [op |-> op, ok |-> FALSE, err |-> kind, n |-> 0, data |-> <<>>, called |-> called]

NoRes == Ok("none", 0, <<>>, FALSE)

\* ErrorKind values a collaborator's read or write may fail with
ErrorKinds == {"Interrupted", "Other"}

(***************************************************************************)
(* Readers.  A reader is [data, short]: data is what it has left to        *)
(* deliver; short = FALSE is the byte slice &[u8], short = TRUE is any     *)
(* reader satisfying the Read contract (short counts, errors).             *)
(***************************************************************************)
\* <&[u8] as Read>::read: copy_len = min(dst.len(), self.len())
SliceReadLen(slice, dstLen) == Min(dstLen, Len(slice))

\* counts a read of a dstLen-byte destination may return
ReadCounts(rd, dstLen) ==
    IF dstLen = 0 \/ Len(rd.data) = 0 THEN {0}
    ELSE IF rd.short THEN 1..Min(dstLen, Len(rd.data))
    ELSE {SliceReadLen(rd.data, dstLen)}

\* outcomes of Read::read: Ok(n) or, for a contract reader, an error
ReadOutcomes(rd, dstLen) ==
    [ok : {TRUE}, err : {""}, n : ReadCounts(rd, dstLen)] \cup
    (IF rd.short THEN [ok : {FALSE}, err : ErrorKinds, n : {0}] ELSE {})

\* the reader after a read that returned n
Advance(rd, n) == [rd EXCEPT !.data = Suffix(rd.data, n)]

\* lengths of the region fill_buf may expose: all of a slice, any non-empty
\* part of what a contract reader has left
FillLens(rd) ==
    IF Len(rd.data) = 0 THEN {0}
    ELSE IF rd.short THEN 1..Len(rd.data)
    ELSE {Len(rd.data)}

FillOutcomes(rd) ==
    [ok : {TRUE}, err : {""}, n : FillLens(rd)] \cup
    (IF rd.short THEN [ok : {FALSE}, err : ErrorKinds, n : {0}] ELSE {})

\* the result of a reader that is not invoked
NoCall == [ok |-> TRUE, err |-> "", n |-> 0]

\* no call made yet in this loop
NotYet == [ok |-> FALSE, err |-> "", n |-> 0]

\* results a quantifier ranges over before the reader's contract narrows them
AnyOutcome == [ok : BOOLEAN, err : ErrorKinds \cup {""}, n : 0..MaxSrc]

\* lists of destination buffers (their lengths) of a vectored call
BufLists == UNION {[1..k -> 0..MaxDst] : k \in 0..MaxBufs}

RECURSIVE SumLens(_)
SumLens(bufs) == IF bufs = <<>> THEN 0 ELSE Head(bufs) + SumLens(Tail(bufs))

\* default_read_vectored: bufs.iter_mut().find(|b| !b.is_empty()), else &mut []
FirstNonEmpty(bufs) ==
    IF \E i \in 1..Len(bufs) : bufs[i] > 0
    THEN bufs[CHOOSE i \in 1..Len(bufs) :
                 bufs[i] > 0 /\ \A j \in 1..(i - 1) : bufs[j] = 0]
    ELSE 0

\* <&[u8] as Read>::read_vectored: read into each buffer until the slice is empty
RECURSIVE SliceReadVectored(_, _)
SliceReadVectored(slice, bufs) ==
    IF bufs = <<>> THEN 0
    ELSE LET n == SliceReadLen(slice, Head(bufs))
             rem == Suffix(slice, n)
         IN  IF rem = <<>> THEN n ELSE n + SliceReadVectored(rem, Tail(bufs))

\* outcomes of read_vectored: the slice's override, or Read's default
VecOutcomes(rd, bufs) ==
    IF rd.short THEN ReadOutcomes(rd, FirstNonEmpty(bufs))
    ELSE [ok : {TRUE}, err : {""}, n : {SliceReadVectored(rd.data, bufs)}]

Readers(lo) == [data : {BytesFrom(lo, n) : n \in 0..MaxSrc}, short : BOOLEAN]

(***************************************************************************)
(* Idle values of the components a specification does not exercise         *)
(***************************************************************************)
\* what a Take remembers of the calls made on it: src and l0 are the source
\* and limit it was built with, out the bytes delivered so far, eof whether
\* a read of a non-empty destination returned 0, reset whether set_limit
\* was called, region the length of the region of the last fill_buf, call
\* the last call (req: dst.len() or amt; handed: what was passed on to the
\* wrapped reader; got: the count or region length it answered), lset and
\* base the limit last set and Len(out) at that time, fromZero whether the
\* limit was 0 then, erred whether the wrapped reader ever failed
TakeHistory(src, l) ==
    [src |-> src, l0 |-> l, out |-> <<>>, eof |-> FALSE, reset |-> FALSE,
     region |-> 0, call |-> [req |-> 0, handed |-> 0, got |-> 0],
     lset |-> l, base |-> 0, fromZero |-> FALSE, erred |-> FALSE]

IdleTake == take = [inner |-> [data |-> <<>>, short |-> FALSE], limit |-> 0]
            /\ tkg = TakeHistory(<<>>, 0)

\* what a Chain remembers of the calls made on it: a and b are the two
\* sources it was built over, out the bytes delivered so far, eof whether a
\* read of a non-empty destination returned 0, refills how often the first
\* stream got more bytes, f and s what the last call asked of the first
\* and the second stream and what they answered, req the size of the last
\* request, region the stream that supplied the region of the most recent
\* fill_buf and what is left of it, to the stream the last consume went to,
\* buf whether the Chain was only ever used through fill_buf and consume
\* with amt within the region
ChainHistory(a, b) ==
    [a |-> a, b |-> b, out |-> <<>>, eof |-> FALSE, refills |-> 0,
     f |-> [called |-> FALSE, ok |-> TRUE, n |-> 0, req |-> 0],
     s |-> [called |-> FALSE, ok |-> TRUE, n |-> 0],
     req |-> 0, region |-> [src |-> "none", n |-> 0], to |-> "none",
     buf |-> TRUE]

IdleChain == chain = [first |-> [data |-> <<>>, short |-> FALSE],
                              second |-> [data |-> <<>>, short |-> FALSE],
                              done_first |-> FALSE]
             /\ chg = ChainHistory(<<>>, <<>>)

IdleReadExact == rx = 0

IdleWriteAll == wa = 0

IdleCursor == cursor = [inner |-> <<>>, pos |-> 0]
              /\ cug = [log |-> <<>>, fits |-> TRUE]

IdleStreamLen == sl = [len |-> 0, pos |-> 0, fallible |-> FALSE]

IdleReadUntil == ru = [pc |-> "idle"]

IdleBytes == by = [pc |-> "idle"]

IdleSlices == bs = [rd |-> <<>>, mem |-> <<>>, off |-> 0]

IdleSizeHint == hints = <<>>

(***************************************************************************)
(* Take<T>                                                                 *)
(***************************************************************************)
\* Read::take: Take { inner: self, limit }
InitTake ==
    /\ \E rd \in Readers(1), l \in 0..MaxLimit :
          /\ take = [inner |-> rd, limit |-> l]
          /\ tkg = TakeHistory(rd.data, l)
    /\ res = NoRes
    /\ IdleChain /\ IdleReadExact /\ IdleWriteAll /\ IdleCursor /\ IdleStreamLen
    /\ IdleReadUntil /\ IdleBytes /\ IdleSlices /\ IdleSizeHint
    /\ on = "take"

TakeFrame == UNCHANGED <<chain, chg, rx, wa, cursor, cug, sl,
                 ru, by, bs, hints, on>>

\* the call record of a call on a Take
Call(req, handed, got) == [req |-> req, handed |-> handed, got |-> got]

\* Take::read that forgets `self.limit -= n`
TakeRead_NoDecrement(len, r) ==
    /\ IF take.limit = 0
       THEN /\ r = NoCall
            /\ res' = Ok("read", 0, <<>>, FALSE)
            /\ tkg' = [tkg EXCEPT !.eof = @ \/ len > 0, !.region = 0,
                                  !.call = Call(len, 0, 0)]
            /\ UNCHANGED take
       ELSE LET max == Min(len, take.limit) IN
            /\ r \in ReadOutcomes(take.inner, max)
            /\ IF r.ok
               THEN /\ take' = [inner |-> Advance(take.inner, r.n),
                                limit |-> take.limit]
                    /\ res' = Ok("read", r.n, Prefix(take.inner.data, r.n), TRUE)
                    /\ tkg' = [tkg EXCEPT
                                 !.out = @ \o Prefix(take.inner.data, r.n),
                                 !.eof = @ \/ (len > 0 /\ r.n = 0),
                                 !.region = 0,
                                 !.call = Call(len, max, r.n)]
               ELSE /\ res' = Err("read", r.err, TRUE)
                    /\ tkg' = [tkg EXCEPT !.region = 0, !.erred = TRUE,
                                          !.call = Call(len, max, 0)]
                    /\ UNCHANGED take
    /\ TakeFrame

\* Take::read that hands the whole destination to the wrapped reader
TakeRead_Uncapped(len, r) ==
    /\ IF take.limit = 0
       THEN /\ r = NoCall
            /\ res' = Ok("read", 0, <<>>, FALSE)
            /\ tkg' = [tkg EXCEPT !.eof = @ \/ len > 0, !.region = 0,
                                  !.call = Call(len, 0, 0)]
            /\ UNCHANGED take
       ELSE LET max == len IN
            /\ r \in ReadOutcomes(take.inner, max)
            /\ IF r.ok
               THEN /\ take' = [inner |-> Advance(take.inner, r.n),
                                limit |-> (take.limit - r.n) % U64Modulus]
                    /\ res' = Ok("read", r.n, Prefix(take.inner.data, r.n), TRUE)
                    /\ tkg' = [tkg EXCEPT
                                 !.out = @ \o Prefix(take.inner.data, r.n),
                                 !.eof = @ \/ (len > 0 /\ r.n = 0),
                                 !.region = 0,
                                 !.call = Call(len, max, r.n)]
               ELSE /\ res' = Err("read", r.err, TRUE)
                    /\ tkg' = [tkg EXCEPT !.region = 0, !.erred = TRUE,
                                          !.call = Call(len, max, 0)]
                    /\ UNCHANGED take
    /\ TakeFrame

\* Take::read that charges a failed read of max bytes to the limit
TakeRead_ErrCounts(len, r) ==
    /\ IF take.limit = 0
       THEN /\ r = NoCall
            /\ res' = Ok("read", 0, <<>>, FALSE)
            /\ tkg' = [tkg EXCEPT !.eof = @ \/ len > 0, !.region = 0,
                                  !.call = Call(len, 0, 0)]
            /\ UNCHANGED take
       ELSE LET max == Min(len, take.limit) IN
            /\ r \in ReadOutcomes(take.inner, max)
            /\ IF r.ok
               THEN /\ take' = [inner |-> Advance(take.inner, r.n),
                                limit |-> take.limit - r.n]
                    /\ res' = Ok("read", r.n, Prefix(take.inner.data, r.n), TRUE)
                    /\ tkg' = [tkg EXCEPT
                                 !.out = @ \o Prefix(take.inner.data, r.n),
                                 !.eof = @ \/ (len > 0 /\ r.n = 0),
                                 !.region = 0,
                                 !.call = Call(len, max, r.n)]
               ELSE /\ res' = Err("read", r.err, TRUE)
                    /\ tkg' = [tkg EXCEPT !.region = 0, !.erred = TRUE,
                                          !.call = Call(len, max, 0)]
                    /\ take' = [take EXCEPT !.limit = @ - max]
    /\ TakeFrame

\* Take::read on a destination of len bytes; r is what the wrapped reader's
\* read returns when it is invoked
TakeRead(len, r) ==
    /\ IF take.limit = 0
       THEN /\ r = NoCall
            /\ res' = Ok("read", 0, <<>>, FALSE)
            /\ tkg' = [tkg EXCEPT !.eof = @ \/ len > 0, !.region = 0,
                                  !.call = Call(len, 0, 0)]
            /\ UNCHANGED take
       ELSE LET max == Min(len, take.limit) IN
            /\ r \in ReadOutcomes(take.inner, max)
            /\ IF r.ok
               THEN /\ take' = [inner |-> Advance(take.inner, r.n),
                                limit |-> take.limit - r.n]
                    /\ res' = Ok("read", r.n, Prefix(take.inner.data, r.n), TRUE)
                    /\ tkg' = [tkg EXCEPT
                                 !.out = @ \o Prefix(take.inner.data, r.n),
                                 !.eof = @ \/ (len > 0 /\ r.n = 0),
                                 !.region = 0,
                                 !.call = Call(len, max, r.n)]
               ELSE /\ res' = Err("read", r.err, TRUE)
                    /\ tkg' = [tkg EXCEPT !.region = 0, !.erred = TRUE,
                                          !.call = Call(len, max, 0)]
                    /\ UNCHANGED take
    /\ TakeFrame

\* fill_buf without the `if self.limit == 0` early return
TakeFillBuf_NoEofCheck(r) ==
    /\ r \in FillOutcomes(take.inner)
    /\ IF r.ok
       THEN LET cap == Min(r.n, take.limit) IN
            /\ res' = Ok("fill_buf", cap, Prefix(take.inner.data, cap), TRUE)
            /\ tkg' = [tkg EXCEPT !.region = cap, !.call = Call(0, 0, r.n)]
       ELSE /\ res' = Err("fill_buf", r.err, TRUE)
            /\ tkg' = [tkg EXCEPT !.region = 0, !.erred = TRUE,
                                  !.call = Call(0, 0, 0)]
    /\ UNCHANGED take
    /\ TakeFrame

\* fill_buf that returns the wrapped region whole
TakeFillBuf_Uncapped(r) ==
    /\ IF take.limit = 0
       THEN /\ r = NoCall
            /\ res' = Ok("fill_buf", 0, <<>>, FALSE)
            /\ tkg' = [tkg EXCEPT !.region = 0, !.call = Call(0, 0, 0)]
       ELSE /\ r \in FillOutcomes(take.inner)
            /\ IF r.ok
               THEN /\ res' = Ok("fill_buf", r.n, Prefix(take.inner.data, r.n), TRUE)
                    /\ tkg' = [tkg EXCEPT !.region = r.n,
                                          !.call = Call(0, 0, r.n)]
               ELSE /\ res' = Err("fill_buf", r.err, TRUE)
                    /\ tkg' = [tkg EXCEPT !.region = 0, !.erred = TRUE,
                                          !.call = Call(0, 0, 0)]
    /\ UNCHANGED take
    /\ TakeFrame

\* <Take<T> as BufRead>::fill_buf; r is what the wrapped fill_buf returns
TakeFillBuf(r) ==
    /\ IF take.limit = 0
       THEN /\ r = NoCall
            /\ res' = Ok("fill_buf", 0, <<>>, FALSE)
            /\ tkg' = [tkg EXCEPT !.region = 0, !.call = Call(0, 0, 0)]
       ELSE /\ r \in FillOutcomes(take.inner)
            /\ IF r.ok
               THEN LET cap == Min(r.n, take.limit) IN
                    /\ res' = Ok("fill_buf", cap, Prefix(take.inner.data, cap), TRUE)
                    /\ tkg' = [tkg EXCEPT !.region = cap,
                                          !.call = Call(0, 0, r.n)]
               ELSE /\ res' = Err("fill_buf", r.err, TRUE)
                    /\ tkg' = [tkg EXCEPT !.region = 0, !.erred = TRUE,
                                          !.call = Call(0, 0, 0)]
    /\ UNCHANGED take
    /\ TakeFrame

\* consume that forwards and subtracts amt as the caller gave it
TakeConsume_NoCap(amt) ==
    /\ amt <= Len(take.inner.data)
    /\ take' = [inner |-> Advance(take.inner, amt),
                limit |-> (take.limit - amt) % U64Modulus]
    /\ res' = Ok("consume", amt, Prefix(take.inner.data, amt), TRUE)
    /\ tkg' = [tkg EXCEPT !.out = @ \o Prefix(take.inner.data, amt),
                          !.region = 0, !.call = Call(amt, amt, 0)]
    /\ TakeFrame

\* consume that lowers the limit but never tells the wrapped reader
TakeConsume_SkipsInner(amt) ==
    LET capped == Min(amt, take.limit) IN
    /\ capped <= Len(take.inner.data)
    /\ take' = [take EXCEPT !.limit = take.limit - capped]
    /\ res' = Ok("consume", capped, Prefix(take.inner.data, capped), TRUE)
    /\ tkg' = [tkg EXCEPT !.out = @ \o Prefix(take.inner.data, capped),
                          !.region = 0, !.call = Call(amt, capped, 0)]
    /\ UNCHANGED <<chain, chg, rx, wa, cursor, cug, sl,
                 ru, by, bs, hints, on>>

\* <Take<T> as BufRead>::consume; the wrapped consume is <&[u8]>::consume,
\* which indexes self[amt..] and so needs amt <= self.len()
TakeConsume(amt) ==
    LET capped == Min(amt, take.limit) IN
    /\ capped <= Len(take.inner.data)
    /\ take' = [inner |-> Advance(take.inner, capped),
                limit |-> take.limit - capped]
    /\ res' = Ok("consume", capped, Prefix(take.inner.data, capped), TRUE)
    /\ tkg' = [tkg EXCEPT !.out = @ \o Prefix(take.inner.data, capped),
                          !.region = 0, !.call = Call(amt, capped, 0)]
    /\ TakeFrame

\* set_limit that adds l to what is left of the old limit
TakeSetLimit_Adds(l) ==
    /\ take' = [take EXCEPT !.limit = (@ + l) % U64Modulus]
    /\ res' = Ok("set_limit", l, <<>>, FALSE)
    /\ tkg' = [tkg EXCEPT !.reset = TRUE, !.eof = FALSE, !.region = 0,
                          !.call = Call(l, 0, 0), !.lset = l,
                          !.base = Len(tkg.out), !.fromZero = (take.limit = 0)]
    /\ TakeFrame

\* Take::set_limit
TakeSetLimit(l) ==
    /\ take' = [take EXCEPT !.limit = l]
    /\ res' = Ok("set_limit", l, <<>>, FALSE)
    /\ tkg' = [tkg EXCEPT !.reset = TRUE, !.eof = FALSE, !.region = 0,
                          !.call = Call(l, 0, 0), !.lset = l,
                          !.base = Len(tkg.out), !.fromZero = (take.limit = 0)]
    /\ TakeFrame

NextTake ==
    \/ \E len \in 0..MaxDst :
         \E r \in AnyOutcome : TakeRead(len, r)
    \/ \E r \in AnyOutcome : TakeFillBuf(r)
    \/ \E amt \in 0..MaxDst : TakeConsume(amt)
    \/ \E l \in 0..MaxLimit : TakeSetLimit(l)

SpecTake == InitTake /\ [][NextTake]_vars

\* C1: Take accounting.  What a Take delivers (returned by read, or taken
\* through consume) is always a prefix of its source, never longer than
\* min(N, L); once a read of a non-empty
\* destination has returned 0 (and set_limit was never called) the bytes
\* delivered are exactly the first min(N, L) bytes of the source.
C1_TakeAccounting ==
    /\ tkg.out = Prefix(tkg.src, Len(tkg.out))
    /\ ~tkg.reset => Len(tkg.out) <= Min(Len(tkg.src), tkg.l0)
    /\ (tkg.eof /\ ~tkg.reset) =>
          tkg.out = Prefix(tkg.src, Min(Len(tkg.src), tkg.l0))

\* a Take whose limit, not its source, ended the stream after two or more reads
C1_Witness ==
    /\ tkg.eof /\ ~tkg.reset
    /\ res.op = "read" /\ res.n = 0
    /\ tkg.l0 >= 2 /\ Len(tkg.src) > tkg.l0
    /\ Len(tkg.out) = tkg.l0

\* C2: once the limit is 0, a read or fill_buf returns Ok(0) / an empty
\* region, does not invoke the wrapped reader and leaves the Take as it is.
C2_ExhaustedNeverProbes ==
    [][(take.limit = 0 /\ res'.op \in {"read", "fill_buf"}) =>
          (res'.ok /\ res'.n = 0 /\ res'.data = <<>> /\ ~res'.called
           /\ take' = take)]_vars

\* an exhausted Take over a reader that still has bytes was asked again
C2_Witness ==
    /\ take.limit = 0 /\ tkg.l0 > 0 /\ ~tkg.reset
    /\ Len(take.inner.data) > 0
    /\ res.op \in {"read", "fill_buf"} /\ ~res.called

\* C14: across read, fill_buf and consume the limit never increases; a
\* successful read of n bytes lowers it by exactly n; and the destination
\* handed to the wrapped reader is min(dst.len, limit) bytes long, so no
\* read returns more than that.
C14_LimitNonIncreasing ==
    [][res'.op \in {"read", "fill_buf", "consume"} =>
          /\ take'.limit <= take.limit
          /\ (res'.op = "read" /\ res'.ok) => take'.limit = take.limit - res'.n
          /\ (res'.op = "read" /\ res'.called) =>
                tkg'.call.handed = Min(tkg'.call.req, take.limit)
          /\ (res'.op = "read") => res'.n <= Min(tkg'.call.req, take.limit)]_vars

\* a read into a destination longer than the limit used the limit up
C14_Witness ==
    /\ res.op = "read" /\ res.ok
    /\ tkg.call.req > tkg.call.handed /\ tkg.call.handed > 0
    /\ res.n = tkg.call.handed /\ take.limit = 0
    /\ Len(take.inner.data) > 0

\* C15: set_limit(L) makes the limit L whatever it was and whatever was
\* read, and leaves the wrapped reader alone; from then on the Take counts
\* as a new one: what it delivers after the call plus the limit left is L,
\* and at end-of-data it has delivered min(L, bytes the source had left).
C15_SetLimitReplaces ==
    /\ [](/\ take.limit + (Len(tkg.out) - tkg.base) = tkg.lset
          /\ tkg.eof => Len(tkg.out) - tkg.base =
                           Min(tkg.lset, Len(tkg.src) - tkg.base))
    /\ [][res'.op = "set_limit" =>
            (take'.limit = res'.n /\ take'.inner = take.inner)]_vars

\* a Take that had used up its limit was given a new one and delivered
\* that many further bytes
C15_Witness ==
    /\ tkg.reset /\ tkg.fromZero /\ tkg.base > 0
    /\ tkg.eof /\ tkg.lset >= 2
    /\ Len(tkg.out) - tkg.base = tkg.lset

\* C16: consume(amt) tells the wrapped reader to consume min(amt, limit)
\* bytes and lowers the limit by that much, never below 0 and never above
\* what it was.
C16_ConsumeCapped ==
    [][res'.op = "consume" =>
          LET c == Min(tkg'.call.req, take.limit) IN
          /\ tkg'.call.handed = c
          /\ take'.inner = Advance(take.inner, c)
          /\ take'.limit = take.limit - c
          /\ 0 <= take'.limit /\ take'.limit <= take.limit]_vars

\* a consume that reported more than the limit took the limit to 0 over a
\* reader that still has bytes
C16_Witness ==
    /\ res.op = "consume"
    /\ tkg.call.req > tkg.call.handed /\ tkg.call.handed > 0
    /\ take.limit = 0 /\ Len(take.inner.data) > 0

\* C17: with limit > 0, fill_buf returns the first min(region.len, limit)
\* bytes of the region the wrapped fill_buf returned, never more than the
\* limit, and consumes nothing.
C17_FillBufCapped ==
    [][(res'.op = "fill_buf" /\ res'.ok /\ take.limit > 0) =>
          /\ res'.n = Min(tkg'.call.got, take.limit)
          /\ res'.data = Prefix(Prefix(take.inner.data, tkg'.call.got), res'.n)
          /\ res'.n <= take.limit
          /\ take' = take]_vars

\* the wrapped region was longer than the limit and was cut to it
C17_Witness ==
    /\ res.op = "fill_buf" /\ res.ok
    /\ tkg.call.got > res.n /\ res.n = take.limit /\ res.n > 0

\* C18: an error of the wrapped read or fill_buf is returned as it is,
\* with the limit and the reader unchanged and nothing delivered; a Take
\* whose reader failed on the way still delivers the first min(N, L) bytes.
C18_ErrorsDoNotCount ==
    /\ []((tkg.erred /\ tkg.eof /\ ~tkg.reset) =>
             tkg.out = Prefix(tkg.src, Min(Len(tkg.src), tkg.l0)))
    /\ [][(res'.op \in {"read", "fill_buf"} /\ ~res'.ok) =>
            /\ res'.called /\ res'.err \in ErrorKinds
            /\ take' = take
            /\ tkg'.out = tkg.out]_vars

\* after a failed read, later reads delivered the whole limit
C18_Witness ==
    /\ tkg.erred /\ tkg.eof /\ ~tkg.reset
    /\ tkg.l0 >= 2 /\ Len(tkg.out) = tkg.l0
    /\ res.op = "read" /\ res.ok /\ res.n = 0

(***************************************************************************)
(* Chain<T, U>                                                             *)
(***************************************************************************)
\* Read::chain: Chain { first: self, second: next, done_first: false }
InitChain ==
    /\ \E r1 \in Readers(1), r2 \in Readers(MaxSrc + 1) :
          /\ chain = [first |-> r1, second |-> r2, done_first |-> FALSE]
          /\ chg = ChainHistory(r1.data, r2.data)
    /\ res = NoRes
    /\ IdleTake /\ IdleReadExact /\ IdleWriteAll /\ IdleCursor /\ IdleStreamLen
    /\ IdleReadUntil /\ IdleBytes /\ IdleSlices /\ IdleSizeHint
    /\ on = "chain"

ChainFrame == UNCHANGED <<take, tkg, rx, wa, cursor, cug, sl,
                 ru, by, bs, hints, on>>

\* what the call asked of the first stream and what it answered
FirstCall(r, req) == [called |-> TRUE, ok |-> r.ok, n |-> r.n, req |-> req]

FirstNotCalled == [called |-> FALSE, ok |-> TRUE, n |-> 0, req |-> 0]

\* what the call asked of the second stream and what it answered
SecondCall(r) == [called |-> TRUE, ok |-> r.ok, n |-> r.n]

SecondNotCalled == [called |-> FALSE, ok |-> TRUE, n |-> 0]

NoRegion == [src |-> "none", n |-> 0]

\* the history after a read or read_vectored of req bytes
ReadNote(f, s, req) ==
    [chg EXCEPT !.f = f, !.s = s, !.req = req, !.region = NoRegion,
                !.to = "none", !.buf = FALSE]

\* the history after a fill_buf that returned the region `region`
FillNote(f, s, region) ==
    [chg EXCEPT !.f = f, !.s = s, !.req = 0, !.region = region, !.to = "none"]

\* the history after consume(amt) was forwarded to the stream `to`
ConsumeNote(f, s, amt, to) ==
    [chg EXCEPT !.f = f, !.s = s, !.req = amt, !.to = to,
                !.buf = @ /\ chg.region.src # "none" /\ amt <= chg.region.n,
                !.region = IF amt <= chg.region.n
                           THEN [chg.region EXCEPT !.n = @ - amt]
                           ELSE NoRegion]

\* the common shape of Chain::read and Chain::read_vectored: o1 and o2 are
\* the outcomes the two streams offer for the request, req its total size
ChainReadWith(op, req, o1, o2, r1, r2) ==
    LET askFirst == ~chain.done_first
        fall     == askFirst /\ r1.ok /\ r1.n = 0 /\ req > 0
        done     == chain.done_first \/ fall
        f        == IF askFirst THEN FirstCall(r1, req) ELSE FirstNotCalled
        s        == IF done THEN SecondCall(r2) ELSE SecondNotCalled
    IN
    /\ IF askFirst THEN r1 \in o1 ELSE r1 = NoCall
    /\ IF done THEN r2 \in o2 ELSE r2 = NoCall
    /\ IF askFirst /\ ~r1.ok
       THEN \* self.first.read(buf)? returns the error
            /\ res' = Err(op, r1.err, TRUE)
            /\ chg' = ReadNote(f, s, req)
            /\ UNCHANGED chain
       ELSE IF ~done
       THEN \* n => return Ok(n)
            /\ res' = Ok(op, r1.n, Prefix(chain.first.data, r1.n), TRUE)
            /\ chain' = [chain EXCEPT !.first = Advance(@, r1.n)]
            /\ chg' = [ReadNote(f, s, req) EXCEPT
                          !.out = @ \o Prefix(chain.first.data, r1.n)]
       ELSE \* self.second.read(buf), after done_first = true if it fell through
            /\ chain' = [chain EXCEPT
                            !.done_first = TRUE,
                            !.second = IF r2.ok THEN Advance(@, r2.n) ELSE @]
            /\ res' = IF r2.ok
                      THEN Ok(op, r2.n, Prefix(chain.second.data, r2.n), askFirst)
                      ELSE Err(op, r2.err, askFirst)
            /\ chg' = [ReadNote(f, s, req) EXCEPT
                          !.out = IF r2.ok
                                  THEN @ \o Prefix(chain.second.data, r2.n)
                                  ELSE @,
                          !.eof = @ \/ (r2.ok /\ r2.n = 0 /\ req > 0)]
    /\ ChainFrame

\* Chain::read that treats an empty destination like any other: the first
\* stream's 0 marks it exhausted and the call goes on to the second
ChainRead_MarksOnEmpty(len, r1, r2) ==
    IF ~chain.done_first /\ r1.ok /\ r1.n = 0 /\ len = 0
    THEN /\ r1 \in ReadOutcomes(chain.first, len)
         /\ r2 \in ReadOutcomes(chain.second, len)
         /\ chain' = [chain EXCEPT
                         !.done_first = TRUE,
                         !.second = IF r2.ok THEN Advance(@, r2.n) ELSE @]
         /\ res' = IF r2.ok
                   THEN Ok("read", r2.n, Prefix(chain.second.data, r2.n), TRUE)
                   ELSE Err("read", r2.err, TRUE)
         /\ chg' = ReadNote(FirstCall(r1, len), SecondCall(r2), len)
         /\ ChainFrame
    ELSE ChainReadWith("read", len, ReadOutcomes(chain.first, len),
                       ReadOutcomes(chain.second, len), r1, r2)

\* Chain::read that returns the first stream's 0 instead of falling through
\* to the second stream in the same call
ChainRead_NoFallThrough(len, r1, r2) ==
    IF ~chain.done_first /\ r1.ok /\ r1.n = 0 /\ len > 0
    THEN /\ r1 \in ReadOutcomes(chain.first, len)
         /\ r2 = NoCall
         /\ chain' = [chain EXCEPT !.done_first = TRUE]
         /\ res' = Ok("read", 0, <<>>, TRUE)
         /\ chg' = [ReadNote(FirstCall(r1, len), SecondNotCalled, len) EXCEPT
                       !.eof = TRUE]
         /\ ChainFrame
    ELSE ChainReadWith("read", len, ReadOutcomes(chain.first, len),
                       ReadOutcomes(chain.second, len), r1, r2)

\* Chain::read on a destination of len bytes
ChainRead(len, r1, r2) ==
    ChainReadWith("read", len, ReadOutcomes(chain.first, len),
                  ReadOutcomes(chain.second, len), r1, r2)

\* Chain::read_vectored; `bufs.iter().any(|b| !b.is_empty())` is SumLens > 0
ChainReadVectored(bufs, r1, r2) ==
    ChainReadWith("read_vectored", SumLens(bufs), VecOutcomes(chain.first, bufs),
                  VecOutcomes(chain.second, bufs), r1, r2)

\* fill_buf that goes on to the second stream without `done_first = true`
ChainFillBuf_NoMark(r1, r2) ==
    LET askFirst == ~chain.done_first
        fall     == askFirst /\ r1.ok /\ r1.n = 0
        done     == chain.done_first \/ fall
        f        == IF askFirst THEN FirstCall(r1, 0) ELSE FirstNotCalled
        s        == IF done THEN SecondCall(r2) ELSE SecondNotCalled
    IN
    /\ IF askFirst THEN r1 \in FillOutcomes(chain.first) ELSE r1 = NoCall
    /\ IF done THEN r2 \in FillOutcomes(chain.second) ELSE r2 = NoCall
    /\ IF askFirst /\ ~r1.ok
       THEN /\ res' = Err("fill_buf", r1.err, TRUE)
            /\ chg' = FillNote(f, s, NoRegion)
       ELSE IF ~done
       THEN /\ res' = Ok("fill_buf", r1.n, Prefix(chain.first.data, r1.n), TRUE)
            /\ chg' = FillNote(f, s, [src |-> "first", n |-> r1.n])
       ELSE /\ res' = IF r2.ok
                      THEN Ok("fill_buf", r2.n, Prefix(chain.second.data, r2.n),
                              askFirst)
                      ELSE Err("fill_buf", r2.err, askFirst)
            /\ chg' = FillNote(f, s, IF r2.ok
                                     THEN [src |-> "second", n |-> r2.n]
                                     ELSE NoRegion)
    /\ UNCHANGED chain
    /\ UNCHANGED <<take, tkg, rx, wa, cursor, cug, sl,
                 ru, by, bs, hints, on>>

\* <Chain<T, U> as BufRead>::fill_buf
ChainFillBuf(r1, r2) ==
    LET askFirst == ~chain.done_first
        fall     == askFirst /\ r1.ok /\ r1.n = 0
        done     == chain.done_first \/ fall
        f        == IF askFirst THEN FirstCall(r1, 0) ELSE FirstNotCalled
        s        == IF done THEN SecondCall(r2) ELSE SecondNotCalled
    IN
    /\ IF askFirst THEN r1 \in FillOutcomes(chain.first) ELSE r1 = NoCall
    /\ IF done THEN r2 \in FillOutcomes(chain.second) ELSE r2 = NoCall
    /\ IF askFirst /\ ~r1.ok
       THEN /\ res' = Err("fill_buf", r1.err, TRUE)
            /\ chg' = FillNote(f, s, NoRegion)
            /\ UNCHANGED chain
       ELSE IF ~done
       THEN /\ res' = Ok("fill_buf", r1.n, Prefix(chain.first.data, r1.n), TRUE)
            /\ chg' = FillNote(f, s, [src |-> "first", n |-> r1.n])
            /\ UNCHANGED chain
       ELSE /\ chain' = [chain EXCEPT !.done_first = TRUE]
            /\ res' = IF r2.ok
                      THEN Ok("fill_buf", r2.n, Prefix(chain.second.data, r2.n),
                              askFirst)
                      ELSE Err("fill_buf", r2.err, askFirst)
            /\ chg' = FillNote(f, s, IF r2.ok
                                     THEN [src |-> "second", n |-> r2.n]
                                     ELSE NoRegion)
    /\ ChainFrame

\* consume that forwards to the first stream whatever done_first says
ChainConsume_AlwaysFirst(amt) ==
    /\ amt <= Len(chain.first.data)
    /\ chain' = [chain EXCEPT !.first = Advance(@, amt)]
    /\ res' = Ok("consume", amt, Prefix(chain.first.data, amt), TRUE)
    /\ chg' = [ConsumeNote([called |-> TRUE, ok |-> TRUE, n |-> amt, req |-> amt],
                            SecondNotCalled, amt, "first") EXCEPT
                  !.out = @ \o Prefix(chain.first.data, amt)]
    /\ ChainFrame

\* <Chain<T, U> as BufRead>::consume; the stream's consume needs amt bytes
\* to be there (<&[u8]>::consume indexes self[amt..])
ChainConsume(amt) ==
    /\ IF ~chain.done_first
       THEN /\ amt <= Len(chain.first.data)
            /\ chain' = [chain EXCEPT !.first = Advance(@, amt)]
            /\ res' = Ok("consume", amt, Prefix(chain.first.data, amt), TRUE)
            /\ chg' = [ConsumeNote([called |-> TRUE, ok |-> TRUE, n |-> amt,
                                     req |-> amt],
                                    SecondNotCalled, amt, "first") EXCEPT
                          !.out = @ \o Prefix(chain.first.data, amt)]
       ELSE /\ amt <= Len(chain.second.data)
            /\ chain' = [chain EXCEPT !.second = Advance(@, amt)]
            /\ res' = Ok("consume", amt, Prefix(chain.second.data, amt), FALSE)
            /\ chg' = [ConsumeNote(FirstNotCalled,
                                    [called |-> TRUE, ok |-> TRUE, n |-> amt],
                                    amt, "second") EXCEPT
                          !.out = @ \o Prefix(chain.second.data, amt)]
    /\ ChainFrame

\* the environment: a first stream that is not a slice and had reported
\* end-of-data gets one more byte to deliver (Read::read's doc: a 0 result
\* "does not mean that the reader will always no longer be able to produce
\* bytes")
ChainRefill ==
    /\ chain.first.short /\ chain.first.data = <<>>
    /\ chg.refills < MaxRefill
    /\ chain' = [chain EXCEPT !.first.data = <<2 * MaxSrc + 1 + chg.refills>>]
    /\ chg' = [chg EXCEPT !.refills = @ + 1, !.f = FirstNotCalled,
                          !.s = SecondNotCalled, !.req = 0,
                          !.region = NoRegion, !.to = "none", !.buf = FALSE]
    /\ res' = Ok("refill", 1, <<>>, FALSE)
    /\ ChainFrame

\* the outcomes to draw from: a stream's own, or NoCall when it is not asked
Offered(o) == o \cup {NoCall}

NextChain ==
    \/ \E len \in 0..MaxDst :
         \E r1 \in Offered(ReadOutcomes(chain.first, len)),
            r2 \in Offered(ReadOutcomes(chain.second, len)) :
              ChainRead(len, r1, r2)
    \/ \E bufs \in BufLists :
         \E r1 \in Offered(VecOutcomes(chain.first, bufs)),
            r2 \in Offered(VecOutcomes(chain.second, bufs)) :
              ChainReadVectored(bufs, r1, r2)
    \/ \E r1 \in Offered(FillOutcomes(chain.first)),
          r2 \in Offered(FillOutcomes(chain.second)) : ChainFillBuf(r1, r2)
    \/ \E amt \in 0..MaxDst : ChainConsume(amt)
    \/ ChainRefill

SpecChain == InitChain /\ [][NextChain]_vars

\* C3: Chain ordering.  For two finite sources A and B (the first stream
\* never gets more bytes), what Chain(A, B) has delivered is always a prefix
\* of A ++ B, and at its first 0-byte result for a non-empty destination it
\* is exactly A ++ B.
C3_ChainOrdering ==
    chg.refills = 0 =>
       /\ chg.out = Prefix(chg.a \o chg.b, Len(chg.out))
       /\ chg.eof => chg.out = chg.a \o chg.b

\* a chain of two sources of two or more bytes each, read to its end
C3_Witness ==
    /\ chg.eof /\ chg.refills = 0
    /\ Len(chg.a) >= 2 /\ Len(chg.b) >= 2
    /\ chg.out = chg.a \o chg.b
    /\ res.op = "read" /\ res.n = 0

\* C4: done_first starts false; it never flips back; it flips only in a
\* read, read_vectored or fill_buf in which the first stream answered 0 /
\* an empty region to a non-empty request; and once it is true no call on
\* the Chain invokes or changes the first stream.
C4_DoneFirstMonotone ==
    /\ ~chain.done_first
    /\ [][/\ chain.done_first => chain'.done_first
          /\ (~chain.done_first /\ chain'.done_first) =>
                /\ res'.op \in {"read", "read_vectored", "fill_buf"}
                /\ chg'.f.called /\ chg'.f.ok /\ chg'.f.n = 0
                /\ (res'.op = "fill_buf" \/ chg'.f.req > 0)
          /\ (chain.done_first /\ res'.op # "refill") =>
                (~chg'.f.called /\ chain'.first = chain.first)]_vars

\* the first stream has bytes again after it was marked exhausted, and a
\* later call on the Chain did not ask it
C4_Witness ==
    /\ chain.done_first /\ Len(chain.first.data) > 0
    /\ res.op \in {"read", "read_vectored", "fill_buf", "consume"}
    /\ ~chg.f.called

\* C19: in a Chain::read, when the first stream answers 0 to a non-empty
\* destination the same call returns what the second stream answers and
\* marks the first exhausted; a 0 for a non-empty destination is always the
\* second stream's 0; and when the first stream is asked with an empty
\* destination, or answers a non-zero count or an error, its answer is
\* returned as it is, the second stream is not asked and done_first stays
\* false.
C19_ReadFallsThrough ==
    [][res'.op = "read" =>
          LET f == chg'.f
              s == chg'.s
              req == chg'.req
          IN
          /\ (res'.ok /\ res'.n = 0 /\ req > 0) =>
                (s.called /\ s.ok /\ s.n = 0)
          /\ (f.called /\ f.ok /\ f.n = 0 /\ req > 0) =>
                /\ s.called /\ chain'.done_first
                /\ res'.ok = s.ok /\ res'.n = s.n
                /\ res'.ok => res'.data = Prefix(chain.second.data, s.n)
          /\ (f.called /\ (req = 0 \/ f.n > 0 \/ ~f.ok)) =>
                /\ ~s.called /\ chain'.second = chain.second
                /\ ~chain'.done_first
                /\ res'.ok = f.ok /\ res'.n = f.n
                /\ res'.ok => res'.data = Prefix(chain.first.data, f.n)]_vars

\* the first stream had nothing left, and the same read returned bytes of
\* the second
C19_Witness ==
    /\ res.op = "read" /\ res.ok /\ res.n > 0
    /\ chg.f.called /\ chg.f.ok /\ chg.f.n = 0 /\ chg.req > 0
    /\ chg.s.called /\ chg.s.n = res.n
    /\ chain.done_first /\ Len(chg.a) > 0

\* C20: a fill_buf flips done_first exactly when the first stream's
\* fill_buf answers an empty region, and never back; its region comes from
\* the first stream while done_first is false after the call and from the
\* second once it is true; a consume goes to the stream that supplied the
\* region of the most recent fill_buf; and a Chain used only through
\* fill_buf and consume with amt within the region has accepted a prefix
\* of A ++ B, all of it when fill_buf returns an empty region.
C20_BufReadSwitchesOnce ==
    /\ [](chg.buf =>
            /\ chg.out = Prefix(chg.a \o chg.b, Len(chg.out))
            /\ (res.op = "fill_buf" /\ res.ok /\ res.n = 0) =>
                  chg.out = chg.a \o chg.b)
    /\ [][/\ res'.op = "fill_buf" =>
                /\ (chain'.done_first # chain.done_first) <=>
                      (chg'.f.called /\ chg'.f.ok /\ chg'.f.n = 0)
                /\ chain.done_first => chain'.done_first
                /\ chg'.region.src = "first" => ~chain'.done_first
                /\ chg'.region.src = "second" => chain'.done_first
                /\ res'.ok => chg'.region.src =
                      (IF chain'.done_first THEN "second" ELSE "first")
          /\ res'.op = "consume" =>
                /\ chain'.done_first = chain.done_first
                /\ chg'.to = (IF chain.done_first THEN "second" ELSE "first")
                /\ chg.region.src # "none" => chg'.to = chg.region.src]_vars

\* both sources were accepted whole through fill_buf and consume, some of
\* each, and fill_buf then returned an empty region
C20_Witness ==
    /\ chg.buf /\ res.op = "fill_buf" /\ res.ok /\ res.n = 0
    /\ Len(chg.a) >= 2 /\ Len(chg.b) >= 2
    /\ chg.out = chg.a \o chg.b
    /\ chain.done_first

(***************************************************************************)
(* Read::read_exact (default_read_exact)                                   *)
(***************************************************************************)
\* a fresh call read_exact(buf) with buf.len() = len on reader rd
RxEnter(rd, len) ==
    [rd |-> rd, start |-> rd.data, buflen |-> len, rem |-> len,
     filled |-> <<>>, sum |-> 0, intr |-> 0, pc |-> "loop", last |-> NotYet]

InitReadExact ==
    /\ \E rd \in Readers(1), len \in 0..MaxDst : rx = RxEnter(rd, len)
    /\ res = NoRes
    /\ IdleTake /\ IdleChain /\ IdleWriteAll /\ IdleCursor /\ IdleStreamLen
    /\ IdleReadUntil /\ IdleBytes /\ IdleSlices /\ IdleSizeHint
    /\ on = "read_exact"

RxFrame == UNCHANGED <<take, tkg, chain, chg, wa, cursor, cug, sl,
                 ru, by, bs, hints, on>>

\* an iteration that takes Ok(0) for success: returns Ok(()) after the break
RxIter_EofIsOk(r) ==
    /\ rx.pc = "loop" /\ rx.rem > 0
    /\ r \in ReadOutcomes(rx.rd, rx.rem)
    /\ (r.err = "Interrupted") => rx.intr < MaxIntr
    /\ IF r.ok /\ r.n = 0
       THEN /\ rx' = [rx EXCEPT !.pc = "done", !.last = r]
            /\ res' = Ok("read_exact", 0, rx.filled, TRUE)
       ELSE IF r.ok
       THEN /\ rx' = [rx EXCEPT !.rd = Advance(@, r.n),
                                !.rem = @ - r.n,
                                !.filled = @ \o Prefix(rx.rd.data, r.n),
                                !.sum = @ + r.n,
                                !.last = r]
            /\ UNCHANGED res
       ELSE IF r.err = "Interrupted"
       THEN /\ rx' = [rx EXCEPT !.intr = @ + 1, !.last = r]
            /\ UNCHANGED res
       ELSE /\ rx' = [rx EXCEPT !.pc = "done", !.last = r]
            /\ res' = Err("read_exact", r.err, TRUE)
    /\ UNCHANGED <<take, tkg, chain, chg, wa, cursor, cug, sl,
                 ru, by, bs, hints, on>>

\* one iteration of `while !buf.is_empty() { match this.read(buf) ... }`;
\* Ok(0) breaks out of the loop with buf not empty, which is UnexpectedEof
RxIter(r) ==
    /\ rx.pc = "loop" /\ rx.rem > 0
    /\ r \in ReadOutcomes(rx.rd, rx.rem)
    /\ (r.err = "Interrupted") => rx.intr < MaxIntr
    /\ IF r.ok /\ r.n = 0
       THEN /\ rx' = [rx EXCEPT !.pc = "done", !.last = r]
            /\ res' = Err("read_exact", "UnexpectedEof", TRUE)
       ELSE IF r.ok
       THEN /\ rx' = [rx EXCEPT !.rd = Advance(@, r.n),
                                !.rem = @ - r.n,
                                !.filled = @ \o Prefix(rx.rd.data, r.n),
                                !.sum = @ + r.n,
                                !.last = r]
            /\ UNCHANGED res
       ELSE IF r.err = "Interrupted"
       THEN /\ rx' = [rx EXCEPT !.intr = @ + 1, !.last = r]
            /\ UNCHANGED res
       ELSE /\ rx' = [rx EXCEPT !.pc = "done", !.last = r]
            /\ res' = Err("read_exact", r.err, TRUE)
    /\ RxFrame

\* the loop ends with buf empty: Ok(())
RxReturn ==
    /\ rx.pc = "loop" /\ rx.rem = 0
    /\ rx' = [rx EXCEPT !.pc = "done"]
    /\ res' = Ok("read_exact", 0, rx.filled, rx.sum > 0)
    /\ RxFrame

\* the caller calls read_exact again, on the same reader
RxCall(len) ==
    /\ rx.pc = "done"
    /\ rx' = RxEnter(rx.rd, len)
    /\ res' = NoRes
    /\ RxFrame

NextReadExact ==
    \/ \E r \in AnyOutcome : RxIter(r)
    \/ RxReturn
    \/ \E len \in 0..MaxDst : RxCall(len)

SpecReadExact == InitReadExact /\ [][NextReadExact]_vars

\* bytes the current read_exact call has taken from its reader
RxTaken == Len(rx.start) - Len(rx.rd.data)

\* C5: short-read loop.  read_exact takes from the reader exactly the sum of
\* the counts its reads returned, never more than buf.len(), and they are
\* the filled prefix; when no read failed, it ends with Ok and the buffer
\* full, or with UnexpectedEof, and the latter exactly when a read returned
\* 0 with part of the buffer unfilled.
C5_ReadExactShortReads ==
    /\ RxTaken = rx.sum /\ RxTaken <= rx.buflen
    /\ rx.filled = Prefix(rx.start, RxTaken)
    /\ rx.rem = rx.buflen - RxTaken
    /\ (rx.pc = "done" /\ res.err # "Other") =>
          /\ res.ok <=> Len(rx.filled) = rx.buflen
          /\ ~res.ok <=> (res.err = "UnexpectedEof" /\ rx.rem > 0
                           /\ rx.last.ok /\ rx.last.n = 0)
    /\ (rx.pc = "loop") => ~(rx.last.ok /\ rx.last.n = 0)

\* a read_exact that got part of its buffer in short reads and then hit the end
C5_Witness ==
    /\ rx.pc = "done" /\ res.err = "UnexpectedEof"
    /\ rx.sum > 0 /\ rx.sum < rx.buflen /\ rx.rd.short
    /\ Len(rx.filled) = rx.sum

(***************************************************************************)
(* Sinks.  "contract" is any writer satisfying the Write contract, with    *)
(* room for `room` more bytes; "slice" is &mut [u8], the part of mem from  *)
(* off on; "cursor" is Cursor<&mut [u8]>.                                  *)
(***************************************************************************)
\* a write that copies to the start of the buffer instead of to mem[off..]
MutSliceWrite_FromStart(mem, off, src) ==
    LET copy_len == Min(Len(src), Len(mem) - off) IN
    [n   |-> copy_len,
     mem |-> [i \in 1..Len(mem) |-> IF i <= copy_len THEN src[i] ELSE mem[i]],
     off |-> off + copy_len]

\* <&mut [u8] as Write>::write on mem[off..]: copy_len = min(src.len(), self.len())
MutSliceWrite(mem, off, src) ==
    LET copy_len == Min(Len(src), Len(mem) - off) IN
    [n   |-> copy_len,
     mem |-> [i \in 1..Len(mem) |->
                 IF off < i /\ i <= off + copy_len THEN src[i - off] ELSE mem[i]],
     off |-> off + copy_len]

\* slice_write that forgets `*pos_mut += amt`
SliceWrite_NoAdvance(pos, slice, buf) ==
    LET p == Min(pos, Len(slice))
        w == MutSliceWrite(slice, p, buf)
    IN  [n |-> w.n, inner |-> w.mem, pos |-> pos]

\* a slice_write that clears what lies after the bytes it wrote
SliceWrite_ClearsTail(pos, slice, buf) ==
    LET p == Min(pos, Len(slice))
        w == MutSliceWrite(slice, p, buf)
    IN  [n |-> w.n,
         inner |-> [i \in 1..Len(slice) |-> IF i > p + w.n THEN 0 ELSE w.mem[i]],
         pos |-> (pos + w.n) % U64Modulus]

\* slice_write(pos_mut, slice, buf): write at min(pos, len), then pos += amt
SliceWrite(pos, slice, buf) ==
    LET p == Min(pos, Len(slice))
        w == MutSliceWrite(slice, p, buf)
    IN  [n |-> w.n, inner |-> w.mem, pos |-> (pos + w.n) % U64Modulus]

\* bytes the sink can still take
Capacity(sink) ==
    CASE sink.kind = "contract" -> sink.room
      [] sink.kind = "slice"    -> Len(sink.mem) - sink.off
      [] sink.kind = "cursor"   -> Len(sink.inner) - Min(sink.pos, Len(sink.inner))

\* counts a write of src may return: what fits for the in-memory sinks, any
\* non-zero part of what fits for a contract writer
WriteCounts(sink, src) ==
    LET fit == Min(Len(src), Capacity(sink)) IN
    IF fit = 0 THEN {0}
    ELSE IF sink.kind = "contract" THEN 1..fit
    ELSE {fit}

WriteOutcomes(sink, src) ==
    [ok : {TRUE}, err : {""}, n : WriteCounts(sink, src)] \cup
    (IF sink.kind = "contract" THEN [ok : {FALSE}, err : ErrorKinds, n : {0}]
     ELSE {})

\* the sink after a write of src that returned n
Written(sink, src, n) ==
    CASE sink.kind = "contract" ->
           [sink EXCEPT !.room = @ - n, !.got = @ \o Prefix(src, n)]
      [] sink.kind = "slice" ->
           LET w == MutSliceWrite(sink.mem, sink.off, src) IN
           [sink EXCEPT !.mem = w.mem, !.off = w.off]
      [] sink.kind = "cursor" ->
           LET w == SliceWrite(sink.pos, sink.inner, src) IN
           [sink EXCEPT !.inner = w.inner, !.pos = w.pos]

\* the bytes the sink holds of what was written to it since position `from`
Stored(sink, from, n) ==
    CASE sink.kind = "contract" -> SubSeq(sink.got, from + 1, from + n)
      [] sink.kind = "slice"    -> SubSeq(sink.mem, from + 1, from + n)
      [] sink.kind = "cursor"   -> SubSeq(sink.inner, from + 1, from + n)

\* where the next byte written to the sink goes
WritePoint(sink) ==
    CASE sink.kind = "contract" -> Len(sink.got)
      [] sink.kind = "slice"    -> sink.off
      [] sink.kind = "cursor"   -> Min(sink.pos, Len(sink.inner))

Zeros(n) == [i \in 1..n |-> 0]

Sinks ==
    [kind : {"contract"}, room : 0..MaxSrc, got : {<<>>}] \cup
    [kind : {"slice"}, mem : {Zeros(n) : n \in 0..MaxSrc}, off : {0}] \cup
    {[kind |-> "cursor", inner |-> Zeros(n), pos |-> p] :
        n \in 0..MaxSrc, p \in 0..(MaxSrc + 1)}

(***************************************************************************)
(* Write::write_all                                                        *)
(***************************************************************************)
\* a fresh call write_all(data) on sink
WaEnter(sink, data) ==
    [sink |-> sink, data |-> data, buf |-> data, from |-> WritePoint(sink),
     cap0 |-> Capacity(sink), calls |-> 0, intr |-> 0, pc |-> "loop",
     last |-> NotYet]

InitWriteAll ==
    /\ \E sink \in Sinks, n \in 0..MaxSrc : wa = WaEnter(sink, BytesFrom(1, n))
    /\ res = NoRes
    /\ IdleTake /\ IdleChain /\ IdleReadExact /\ IdleCursor /\ IdleStreamLen
    /\ IdleReadUntil /\ IdleBytes /\ IdleSlices /\ IdleSizeHint
    /\ on = "write_all"

WaFrame == UNCHANGED <<take, tkg, chain, chg, rx, cursor, cug, sl,
                 ru, by, bs, hints, on>>

\* an iteration that retries after Ok(0) as it does after Interrupted
WaIter_ZeroRetries(r) ==
    /\ wa.pc = "loop" /\ wa.sink.kind # "slice" /\ wa.buf # <<>>
    /\ r \in WriteOutcomes(wa.sink, wa.buf)
    /\ (r.err = "Interrupted" \/ (r.ok /\ r.n = 0)) => wa.intr < MaxIntr
    /\ IF r.ok /\ r.n > 0
       THEN /\ wa' = [wa EXCEPT !.sink = Written(@, wa.buf, r.n),
                                !.buf = Suffix(@, r.n),
                                !.calls = @ + 1, !.last = r]
            /\ UNCHANGED res
       ELSE IF r.ok \/ r.err = "Interrupted"
       THEN /\ wa' = [wa EXCEPT !.intr = @ + 1, !.calls = @ + 1, !.last = r]
            /\ UNCHANGED res
       ELSE /\ wa' = [wa EXCEPT !.pc = "done", !.calls = @ + 1, !.last = r]
            /\ res' = Err("write_all", r.err, TRUE)
    /\ UNCHANGED <<take, tkg, chain, chg, rx, cursor, cug, sl,
                 ru, by, bs, hints, on>>

\* one iteration of `while !buf.is_empty() { match self.write(buf) ... }`
WaIter(r) ==
    /\ wa.pc = "loop" /\ wa.sink.kind # "slice" /\ wa.buf # <<>>
    /\ r \in WriteOutcomes(wa.sink, wa.buf)
    /\ (r.err = "Interrupted") => wa.intr < MaxIntr
    /\ IF r.ok /\ r.n = 0
       THEN /\ wa' = [wa EXCEPT !.pc = "done", !.calls = @ + 1, !.last = r]
            /\ res' = Err("write_all", "WriteZero", TRUE)
       ELSE IF r.ok
       THEN /\ wa' = [wa EXCEPT !.sink = Written(@, wa.buf, r.n),
                                !.buf = Suffix(@, r.n),
                                !.calls = @ + 1, !.last = r]
            /\ UNCHANGED res
       ELSE IF r.err = "Interrupted"
       THEN /\ wa' = [wa EXCEPT !.intr = @ + 1, !.calls = @ + 1, !.last = r]
            /\ UNCHANGED res
       ELSE /\ wa' = [wa EXCEPT !.pc = "done", !.calls = @ + 1, !.last = r]
            /\ res' = Err("write_all", r.err, TRUE)
    /\ WaFrame

\* the loop ends with buf empty: Ok(())
WaReturn ==
    /\ wa.pc = "loop" /\ wa.sink.kind # "slice" /\ wa.buf = <<>>
    /\ wa' = [wa EXCEPT !.pc = "done"]
    /\ res' = Ok("write_all", 0, <<>>, wa.calls > 0)
    /\ WaFrame

\* a slice write_all that reports Ok whatever write returned
SliceWriteAll_Truncates ==
    /\ wa.pc = "loop" /\ wa.sink.kind = "slice"
    /\ LET w == MutSliceWrite(wa.sink.mem, wa.sink.off, wa.data) IN
         /\ wa' = [wa EXCEPT !.sink = Written(@, wa.data, w.n),
                             !.buf = Suffix(@, w.n),
                             !.calls = @ + 1, !.pc = "done",
                             !.last = [ok |-> TRUE, err |-> "", n |-> w.n]]
         /\ res' = Ok("write_all", 0, <<>>, TRUE)
    /\ UNCHANGED <<take, tkg, chain, chg, rx, cursor, cug, sl,
                 ru, by, bs, hints, on>>

\* a slice write_all that stores nothing when data does not fit
SliceWriteAll_Atomic ==
    /\ wa.pc = "loop" /\ wa.sink.kind = "slice"
    /\ LET w == MutSliceWrite(wa.sink.mem, wa.sink.off, wa.data) IN
         /\ wa' = IF w.n = Len(wa.data)
                  THEN [wa EXCEPT !.sink = Written(@, wa.data, w.n),
                                  !.buf = Suffix(@, w.n),
                                  !.calls = @ + 1, !.pc = "done",
                                  !.last = [ok |-> TRUE, err |-> "", n |-> w.n]]
                  ELSE [wa EXCEPT !.calls = @ + 1, !.pc = "done",
                                  !.last = [ok |-> TRUE, err |-> "", n |-> 0]]
         /\ res' = IF w.n = Len(wa.data)
                   THEN Ok("write_all", 0, <<>>, TRUE)
                   ELSE Err("write_all", "WriteZero", TRUE)
    /\ UNCHANGED <<take, tkg, chain, chg, rx, cursor, cug, sl,
                 ru, by, bs, hints, on>>

\* <&mut [u8] as Write>::write_all: one write, Ok iff it took all of data
SliceWriteAll ==
    /\ wa.pc = "loop" /\ wa.sink.kind = "slice"
    /\ LET w == MutSliceWrite(wa.sink.mem, wa.sink.off, wa.data) IN
         /\ wa' = [wa EXCEPT !.sink = Written(@, wa.data, w.n),
                             !.buf = Suffix(@, w.n),
                             !.calls = @ + 1, !.pc = "done",
                             !.last = [ok |-> TRUE, err |-> "", n |-> w.n]]
         /\ res' = IF w.n = Len(wa.data)
                   THEN Ok("write_all", 0, <<>>, TRUE)
                   ELSE Err("write_all", "WriteZero", TRUE)
    /\ WaFrame

\* the caller calls write_all again, on the same sink
WaCall(n) ==
    /\ wa.pc = "done"
    /\ wa' = WaEnter(wa.sink, BytesFrom(1, n))
    /\ res' = NoRes
    /\ WaFrame

NextWriteAll ==
    \/ \E r \in AnyOutcome : WaIter(r)
    \/ WaReturn
    \/ SliceWriteAll
    \/ \E n \in 0..MaxSrc : WaCall(n)

SpecWriteAll == InitWriteAll /\ [][NextWriteAll]_vars

\* bytes of data the current write_all call has had accepted
WaWritten == Len(wa.data) - Len(wa.buf)

\* C6: write_all over the generic loop.  The sink has accepted exactly the
\* written prefix of data, in order; Ok is returned only with all of data
\* accepted; a write returning 0 with data remaining ends the call at once
\* with WriteZero; the first error other than Interrupted ends it at once
\* with that error; and for empty data write is never called.
C6_WriteAllLoop ==
    wa.sink.kind # "slice" =>
       /\ wa.buf = Suffix(wa.data, WaWritten)
       /\ Stored(wa.sink, wa.from, WaWritten) = Prefix(wa.data, WaWritten)
       /\ (wa.pc = "loop") =>
             (wa.last = NotYet \/ (wa.last.ok /\ wa.last.n > 0)
              \/ wa.last.err = "Interrupted")
       /\ (wa.pc = "done") =>
             /\ res.ok <=> wa.buf = <<>>
             /\ (wa.last.ok /\ wa.last.n = 0) <=> res.err = "WriteZero"
             /\ (wa.last.err = "Other") <=> res.err = "Other"
             /\ res.ok \/ res.err \in {"WriteZero", "Other"}
             /\ (wa.data = <<>>) => (res.ok /\ wa.calls = 0)

\* a write_all on a contract writer that took part of the data in pieces,
\* was interrupted, and then returned 0
C6_Witness ==
    /\ wa.pc = "done" /\ wa.sink.kind = "contract"
    /\ res.err = "WriteZero" /\ wa.intr > 0
    /\ WaWritten >= 2 /\ wa.calls >= 4 /\ wa.buf # <<>>

\* C7: a fixed-capacity sink never truncates silently under write_all: on
\* a mutable byte slice and on a Cursor over one, write_all(data) returns
\* Ok exactly when data fits the remaining capacity, and WriteZero otherwise.
C7_FixedSinkWriteAll ==
    (wa.pc = "done" /\ wa.sink.kind \in {"slice", "cursor"}) =>
       /\ res.ok <=> Len(wa.data) <= wa.cap0
       /\ ~res.ok => res.err = "WriteZero"
       /\ res.ok => Stored(wa.sink, wa.from, Len(wa.data)) = wa.data

\* a slice that had already taken bytes refused data longer than what was left
C7_Witness ==
    /\ wa.pc = "done" /\ wa.sink.kind = "slice"
    /\ wa.cap0 > 0 /\ Len(wa.data) > wa.cap0 /\ wa.from > 0
    /\ res.err = "WriteZero"

(***************************************************************************)
(* Cursor<T>                                                               *)
(***************************************************************************)
\* `offset as u64`: the two's complement reading of an i64
AsU64(offset) == offset % U64Modulus

\* u64::overflowing_add
OverflowingAdd(a, b) ==
    [p |-> (a + b) % U64Modulus, overflowed |-> a + b >= U64Modulus]

\* Option<u64>::None
None == -1

\* a wrapping add that never reports a negative or overflowing position
CheckedAddSigned_Wrapping(base_pos, offset) ==
    OverflowingAdd(base_pos, AsU64(offset)).p

\* the end_pos block of Cursor::seek: None if overflowed ^ (offset < 0)
CheckedAddSigned(base_pos, offset) ==
    LET r == OverflowingAdd(base_pos, AsU64(offset)) IN
    IF r.overflowed # (offset < 0) THEN None ELSE r.p

SeekStyles == {"Start", "End", "Current"}

\* SeekFrom values: Start(u64), End(i64), Current(i64)
SeekOffsets(style) == IF style = "Start" THEN 0..U64Max ELSE I64Min..I64Max

\* a seek that stores the wrapped sum before it finds the seek invalid
SeekResult_MovesOnError(len, pos, style, n) ==
    IF style = "Start" THEN [ok |-> TRUE, pos |-> n]
    ELSE LET base_pos == IF style = "End" THEN len ELSE pos
             end_pos  == CheckedAddSigned(base_pos, n)
         IN  IF end_pos = None
             THEN [ok |-> FALSE, pos |-> OverflowingAdd(base_pos, AsU64(n)).p]
             ELSE [ok |-> TRUE, pos |-> end_pos]

\* <Cursor<A> as Seek>::seek on a container of len bytes at position pos:
\* the result and the new position
SeekResult(len, pos, style, n) ==
    IF style = "Start" THEN [ok |-> TRUE, pos |-> n]
    ELSE LET base_pos == IF style = "End" THEN len ELSE pos
             end_pos  == CheckedAddSigned(base_pos, n)
         IN  IF end_pos = None THEN [ok |-> FALSE, pos |-> pos]
             ELSE [ok |-> TRUE, pos |-> end_pos]

\* remaining_slice that ignores the position
RemainingSlice_Whole(c) == c.inner

\* Cursor::remaining_slice: inner[min(pos, len)..]
RemainingSlice(c) == Suffix(c.inner, Min(c.pos, Len(c.inner)))

\* Cursor::is_empty: pos >= len
IsEmpty(c) == c.pos >= Len(c.inner)

\* a result together with the request that produced it
Request(r, style, off) == r @@ [style |-> style, off |-> off]

\* Cursor::new(inner): position 0
InitCursor ==
    /\ \E n \in 0..MaxSrc : cursor = [inner |-> BytesFrom(1, n), pos |-> 0]
    /\ cug = [log |-> <<>>, fits |-> TRUE]
    /\ res = Request(NoRes, "", 0)
    /\ IdleTake /\ IdleChain /\ IdleReadExact /\ IdleWriteAll /\ IdleStreamLen
    /\ IdleReadUntil /\ IdleBytes /\ IdleSlices /\ IdleSizeHint
    /\ on = "cursor"

CursorFrame == UNCHANGED <<take, tkg, chain, chg, rx, wa, cug, sl,
                 ru, by, bs, hints, on>>

\* a seek that refuses Start(n) beyond the end of the container
CursorSeek_StartValidated(style, n) ==
    LET r == SeekResult(Len(cursor.inner), cursor.pos, style, n)
        bad == ~r.ok \/ (style = "Start" /\ n > Len(cursor.inner))
    IN
    /\ n \in SeekOffsets(style)
    /\ cursor' = [cursor EXCEPT !.pos = IF bad THEN @ ELSE r.pos]
    /\ res' = Request(IF bad THEN Err("seek", "InvalidInput", FALSE)
                      ELSE Ok("seek", r.pos, <<>>, FALSE), style, n)
    /\ UNCHANGED <<take, tkg, chain, chg, rx, wa, cug, sl,
                 ru, by, bs, hints, on>>

\* <Cursor<A> as Seek>::seek
CursorSeek(style, n) ==
    LET r == SeekResult(Len(cursor.inner), cursor.pos, style, n) IN
    /\ n \in SeekOffsets(style)
    /\ cursor' = [cursor EXCEPT !.pos = r.pos]
    /\ res' = Request(IF r.ok THEN Ok("seek", r.pos, <<>>, FALSE)
                      ELSE Err("seek", "InvalidInput", FALSE), style, n)
    /\ CursorFrame

\* a read that copies the bytes but leaves the position where it was
CursorRead_NoAdvance(len) ==
    LET rs == RemainingSlice(cursor)
        n  == SliceReadLen(rs, len)
    IN
    /\ cursor' = cursor
    /\ res' = Request(Ok("read", n, Prefix(rs, n), FALSE), "", len)
    /\ UNCHANGED <<take, tkg, chain, chg, rx, wa, cug, sl,
                 ru, by, bs, hints, on>>

\* <Cursor<T> as Read>::read: read from remaining_slice(), then pos += n
CursorRead(len) ==
    LET rs == RemainingSlice(cursor)
        n  == SliceReadLen(rs, len)
    IN
    /\ cursor' = [cursor EXCEPT !.pos = (@ + n) % U64Modulus]
    /\ res' = Request(Ok("read", n, Prefix(rs, n), FALSE), "", len)
    /\ CursorFrame

\* Cursor::set_position
CursorSetPosition(n) ==
    /\ cursor' = [cursor EXCEPT !.pos = n]
    /\ res' = Request(Ok("set_position", n, <<>>, FALSE), "", n)
    /\ CursorFrame

NextCursor ==
    \/ \E style \in SeekStyles, n \in I64Min..U64Max : CursorSeek(style, n)
    \/ \E len \in 0..MaxDst : CursorRead(len)
    \/ \E n \in 0..U64Max : CursorSetPosition(n)

SpecCursor == InitCursor /\ [][NextCursor]_vars

\* C8: Cursor seek arithmetic.  seek(Current(off)) with base = position and
\* seek(End(off)) with base = container length succeed exactly when
\* 0 <= base + off <= u64::MAX as exact integers, then set and return the
\* position base + off; otherwise they fail with InvalidInput.
C8_SeekArithmetic ==
    [][(res'.op = "seek" /\ res'.style \in {"End", "Current"}) =>
          LET base == IF res'.style = "End" THEN Len(cursor.inner) ELSE cursor.pos
              sum  == base + res'.off
          IN  IF 0 <= sum /\ sum <= U64Max
              THEN res'.ok /\ res'.n = sum /\ cursor'.pos = sum
              ELSE ~res'.ok /\ res'.err = "InvalidInput"]_vars

\* seek(Current(-1)) failed on a cursor at position 0
C8_Witness ==
    /\ res.op = "seek" /\ res.style = "Current" /\ res.off = -1
    /\ ~res.ok /\ res.err = "InvalidInput"
    /\ cursor.pos = 0 /\ Len(cursor.inner) > 0

\* C9: seek(Start(n)) succeeds for every n, sets the position to n and
\* returns n whatever the container length; a read at a position at or past
\* the end yields zero bytes and leaves the cursor as it is.
C9_SeekStartAndReadPastEnd ==
    [][/\ (res'.op = "seek" /\ res'.style = "Start") =>
             (res'.ok /\ res'.n = res'.off /\ cursor'.pos = res'.off
              /\ cursor'.inner = cursor.inner)
       /\ (res'.op = "read" /\ cursor.pos >= Len(cursor.inner)) =>
             (res'.ok /\ res'.n = 0 /\ res'.data = <<>> /\ cursor' = cursor)]_vars

\* a read of a non-empty destination after seeking past the end of a
\* non-empty container
C9_Witness ==
    /\ res.op = "read" /\ res.off > 0 /\ res.n = 0
    /\ cursor.pos > Len(cursor.inner) /\ Len(cursor.inner) > 0

\* C13: Cursor read delivers n = min(dst.len, len - min(pos, len)) bytes,
\* the first n of container[min(pos, len) .. len], returns Ok(n) and advances
\* the position by n; remaining_slice() is empty exactly when is_empty(),
\* and then read returns Ok(0) and leaves the position unchanged.
C13_CursorRead ==
    /\ [](IsEmpty(cursor) <=> RemainingSlice(cursor) = <<>>)
    /\ [][res'.op = "read" =>
            LET len   == Len(cursor.inner)
                start == Min(cursor.pos, len)
                n     == Min(res'.off, len - start)
            IN  /\ res'.ok /\ res'.n = n
                /\ res'.data = SubSeq(cursor.inner, start + 1, start + n)
                /\ cursor'.pos = cursor.pos + n
                /\ cursor'.inner = cursor.inner
                /\ IsEmpty(cursor) => (res'.n = 0 /\ cursor' = cursor)]_vars

\* a short read from the middle of the container that reached its end
C13_Witness ==
    /\ res.op = "read" /\ res.n > 0 /\ res.n < res.off
    /\ res.data = <<MaxSrc>>
    /\ cursor.pos = Len(cursor.inner) /\ IsEmpty(cursor)

(***************************************************************************)
(* Cursor<&mut [u8]>: writes into a fixed-size region, read back           *)
(***************************************************************************)
\* the bytes of the k-th write of m bytes, distinct from every other write's
WriteData(k, m) == BytesFrom(10 * k + 1, m)

\* Cursor::new(&mut [0u8; n])
InitCursorIO ==
    /\ \E n \in 0..MaxSrc : cursor = [inner |-> Zeros(n), pos |-> 0]
    /\ cug = [log |-> <<>>, fits |-> TRUE]
    /\ res = Request(NoRes, "", 0)
    /\ IdleTake /\ IdleChain /\ IdleReadExact /\ IdleWriteAll /\ IdleStreamLen
    /\ IdleReadUntil /\ IdleBytes /\ IdleSlices /\ IdleSizeHint
    /\ on = "cursor"

CursorWriteFrame == UNCHANGED <<take, tkg, chain, chg, rx, wa, sl,
                 ru, by, bs, hints, on>>

\* where the writes logged so far end
LastWriteEnd(log) ==
    IF log = <<>> THEN 0 ELSE log[Len(log)].at + Len(log[Len(log)].src)

\* <Cursor<&mut [u8]> as Write>::write: slice_write(&mut self.pos, self.inner, buf)
CursorWrite(src) ==
    LET w == SliceWrite(cursor.pos, cursor.inner, src) IN
    /\ Len(cug.log) < MaxWrites
    /\ cursor' = [inner |-> w.inner, pos |-> w.pos]
    /\ res' = Request(Ok("write", w.n, src, FALSE), "", Len(src))
    /\ cug' = [log  |-> Append(cug.log, [at |-> cursor.pos, src |-> src]),
               fits |-> /\ cug.fits
                        /\ cursor.pos >= LastWriteEnd(cug.log)
                        /\ cursor.pos + Len(src) <= Len(cursor.inner)]
    /\ CursorWriteFrame

NextCursorIO ==
    \/ \E m \in 0..MaxDst : CursorWrite(WriteData(Len(cug.log) + 1, m))
    \/ \E len \in 0..MaxSrc : CursorRead(len)
    \/ \E n \in 0..(MaxSrc + 1) : CursorSeek("Start", n)
    \/ \E n \in {-1, 0, 1} : CursorSeek("End", n)

SpecCursorIO == InitCursorIO /\ [][NextCursorIO]_vars

\* what a region of len zero bytes holds after the writes of log, each
\* within capacity: the byte of the last write covering a place, else 0
Image(log, len) ==
    [i \in 1..len |->
        LET covering == {k \in 1..Len(log) :
                           log[k].at < i /\ i <= log[k].at + Len(log[k].src)}
        IN  IF covering = {} THEN 0
            ELSE LET k == CHOOSE c \in covering : \A d \in covering : d <= c
                 IN  log[k].src[i - log[k].at]]

\* the last call was a read from position 0 into a buffer that holds the
\* whole container
FullReadFromStart ==
    /\ res.op = "read" /\ res.off >= Len(cursor.inner)
    /\ cursor.pos = res.n

\* C11: Cursor round-trip.  After writes at increasing positions within
\* capacity, a full read from position 0 returns the bytes written at the
\* places they were written, and zeros elsewhere.
C11_CursorRoundTrip ==
    (FullReadFromStart /\ cug.fits) =>
       /\ res.n = Len(cursor.inner)
       /\ res.data = Image(cug.log, Len(cursor.inner))

\* two non-empty writes, the first after a gap, read back in full
C11_Witness ==
    /\ FullReadFromStart /\ cug.fits
    /\ Len(cug.log) = 2
    /\ cug.log[1].at > 0 /\ cug.log[1].src # <<>> /\ cug.log[2].src # <<>>
    /\ res.data[1] = 0 /\ res.n = MaxSrc

\* C12: Cursor write copies n = min(src.len, len - min(pos, len)) bytes of
\* src to the container at min(pos, len), returns Ok(n), advances the
\* position by n and keeps the container length; at or past the end it
\* writes nothing, returns Ok(0) and leaves the cursor as it is.
C12_CursorWrite ==
    [][res'.op = "write" =>
          LET src   == res'.data
              len   == Len(cursor.inner)
              start == Min(cursor.pos, len)
              n     == Min(Len(src), len - start)
          IN  /\ res'.ok /\ res'.n = n
              /\ Len(cursor'.inner) = len
              /\ cursor'.pos = cursor.pos + n
              /\ \A i \in 1..len :
                    cursor'.inner[i] = IF start < i /\ i <= start + n
                                       THEN src[i - start]
                                       ELSE cursor.inner[i]
              /\ cursor.pos >= len => (res'.n = 0 /\ cursor' = cursor)]_vars

\* a write from the middle of the region that was cut at its end
C12_Witness ==
    /\ res.op = "write" /\ res.n > 0 /\ res.n < Len(res.data)
    /\ cursor.pos = Len(cursor.inner) /\ cursor.pos > res.n

(***************************************************************************)
(* Seek::stream_len (the default method) over a seekable stream of len     *)
(* bytes whose seek does the position arithmetic of Cursor's; a fallible   *)
(* stream is a collaborator whose seeks may also fail.                     *)
(***************************************************************************)
InitStreamLen ==
    /\ \E n \in 0..MaxSrc, f \in BOOLEAN :
          sl = [len |-> n, pos |-> 0, fallible |-> f]
    /\ res = Request(NoRes, "", 0) @@ [seeks |-> 0]
    /\ IdleTake /\ IdleChain /\ IdleReadExact /\ IdleWriteAll /\ IdleCursor
    /\ IdleReadUntil /\ IdleBytes /\ IdleSlices /\ IdleSizeHint
    /\ on = "stream_len"

StreamLenFrame == UNCHANGED <<take, tkg, chain, chg, rx, wa, cursor, cug,
                 ru, by, bs, hints, on>>

\* Seek::seek by the caller
StreamSeek(style, n) ==
    LET r == SeekResult(sl.len, sl.pos, style, n) IN
    /\ n \in SeekOffsets(style)
    /\ sl' = [sl EXCEPT !.pos = r.pos]
    /\ res' = Request(IF r.ok THEN Ok("seek", r.pos, <<>>, FALSE)
                      ELSE Err("seek", "InvalidInput", FALSE), style, n)
               @@ [seeks |-> 1]
    /\ StreamLenFrame

\* stream_len that does not seek back to old_pos
StreamLen_NoRestore(failAt) ==
    LET p1 == SeekResult(sl.len, sl.pos, "Current", 0)
        p2 == SeekResult(sl.len, p1.pos, "End", 0)
    IN
    /\ failAt > 0 => sl.fallible
    /\ IF failAt = 1 \/ ~p1.ok
       THEN /\ res' = Request(Err("stream_len", "Other", TRUE), "", 0)
                      @@ [seeks |-> 1]
            /\ UNCHANGED sl
       ELSE IF failAt >= 2 \/ ~p2.ok
       THEN /\ res' = Request(Err("stream_len", "Other", TRUE), "", 0)
                      @@ [seeks |-> 2]
            /\ UNCHANGED sl
       ELSE /\ res' = Request(Ok("stream_len", p2.pos, <<>>, TRUE), "", 0)
                      @@ [seeks |-> 2]
            /\ sl' = [sl EXCEPT !.pos = p2.pos]
    /\ UNCHANGED <<take, tkg, chain, chg, rx, wa, cursor, cug,
                 ru, by, bs, hints, on>>

\* Seek::stream_len: old_pos = stream_position()?; len = seek(End(0))?;
\* if old_pos != len { seek(Start(old_pos))? }; Ok(len).  failAt is the
\* seek (1, 2 or 3) that a fallible stream fails, 0 for none
StreamLen(failAt) ==
    LET p1 == SeekResult(sl.len, sl.pos, "Current", 0)
        old_pos == p1.pos
        p2 == SeekResult(sl.len, old_pos, "End", 0)
        len == p2.pos
        p3 == SeekResult(sl.len, len, "Start", old_pos)
    IN
    /\ failAt > 0 => sl.fallible
    /\ failAt = 3 => old_pos # len
    /\ IF failAt = 1 \/ ~p1.ok
       THEN /\ res' = Request(Err("stream_len", "Other", TRUE), "", 0)
                      @@ [seeks |-> 1]
            /\ UNCHANGED sl
       ELSE IF failAt = 2 \/ ~p2.ok
       THEN /\ res' = Request(Err("stream_len", "Other", TRUE), "", 0)
                      @@ [seeks |-> 2]
            /\ UNCHANGED sl
       ELSE IF old_pos # len
       THEN IF failAt = 3 \/ ~p3.ok
            THEN /\ res' = Request(Err("stream_len", "Other", TRUE), "", 0)
                           @@ [seeks |-> 3]
                 /\ sl' = [sl EXCEPT !.pos = len]
            ELSE /\ res' = Request(Ok("stream_len", len, <<>>, TRUE), "", 0)
                           @@ [seeks |-> 3]
                 /\ sl' = [sl EXCEPT !.pos = p3.pos]
       ELSE /\ res' = Request(Ok("stream_len", len, <<>>, TRUE), "", 0)
                      @@ [seeks |-> 2]
            /\ sl' = [sl EXCEPT !.pos = len]
    /\ StreamLenFrame

NextStreamLen ==
    \/ \E style \in SeekStyles, n \in I64Min..U64Max : StreamSeek(style, n)
    \/ \E failAt \in 0..3 : StreamLen(failAt)

SpecStreamLen == InitStreamLen /\ [][NextStreamLen]_vars

\* C10: a stream_len that returns successfully returns the stream length
\* and leaves the position where it was, from every starting position; it
\* seeks a third time, back to the original position, exactly when that
\* position differs from the length.
C10_StreamLenRestores ==
    [][(res'.op = "stream_len" /\ res'.ok) =>
          /\ res'.n = sl.len
          /\ sl' = sl
          /\ res'.seeks = IF sl.pos = sl.len THEN 2 ELSE 3]_vars

\* stream_len succeeded from a position past the end, seeking three times
C10_Witness ==
    /\ res.op = "stream_len" /\ res.ok /\ res.seeks = 3
    /\ sl.pos > sl.len /\ sl.len > 0

(***************************************************************************)
(* BufRead::read_until over a Cursor.  The loop itself lives in io_alloc;  *)
(* it is modelled from the method's documentation: fill_buf, search the    *)
(* region for the delimiter, append up to and including it (or the whole   *)
(* region), consume what was appended, until the delimiter was found or    *)
(* the region was empty.                                                   *)
(***************************************************************************)
\* <Cursor<T> as BufRead>::fill_buf: Ok(self.remaining_slice())
CursorFillBuf(c) == RemainingSlice(c)

\* consume that sets the position to amt instead of advancing by it
CursorConsume_SetsPos(c, amt) == [c EXCEPT !.pos = amt]

\* <Cursor<T> as BufRead>::consume: self.pos += amt as u64
CursorConsume(c, amt) == [c EXCEPT !.pos = (@ + amt) % U64Modulus]

\* memchr(byte, region): the index of the first occurrence, 0 for none
MemChr(byte, region) ==
    IF \E i \in 1..Len(region) : region[i] = byte
    THEN CHOOSE i \in 1..Len(region) :
            region[i] = byte /\ \A j \in 1..(i - 1) : region[j] # byte
    ELSE 0

\* sources of a delimiter scan: strings over two byte values
ScanSources == UNION {[1..n -> {1, 2}] : n \in 0..MaxScan}

\* a fresh call read_until(delim, buf): out is what all calls so far have
\* appended, buf0 and pos0 the buffer and the position at the call
RuEnter(delim, buf, out, calls) ==
    [delim |-> delim, buf |-> buf, buf0 |-> buf, pos0 |-> cursor.pos,
     read |-> 0, out |-> out, calls |-> calls, pc |-> "loop"]

InitReadUntil ==
    /\ \E src \in ScanSources, delim \in {1, 2} :
          /\ cursor = [inner |-> src, pos |-> 0]
          /\ ru = [delim |-> delim, buf |-> <<>>, buf0 |-> <<>>, pos0 |-> 0,
                   read |-> 0, out |-> <<>>, calls |-> 1, pc |-> "loop"]
    /\ cug = [log |-> <<>>, fits |-> TRUE]
    /\ res = NoRes
    /\ IdleTake /\ IdleChain /\ IdleReadExact /\ IdleWriteAll /\ IdleStreamLen
    /\ IdleBytes /\ IdleSlices /\ IdleSizeHint
    /\ on = "read_until"

ReadUntilFrame ==
    UNCHANGED <<take, tkg, chain, chg, rx, wa, cug, sl, by, bs, hints, on>>

\* one iteration of read_until's loop
RuIter ==
    /\ ru.pc = "loop"
    /\ LET available == CursorFillBuf(cursor)
           i    == MemChr(ru.delim, available)
           done == i > 0
           used == IF done THEN i ELSE Len(available)
           read == ru.read + used
       IN
       /\ cursor' = CursorConsume(cursor, used)
       /\ ru' = [ru EXCEPT !.buf = @ \o Prefix(available, used),
                           !.out = @ \o Prefix(available, used),
                           !.read = read,
                           !.pc = IF done \/ used = 0 THEN "done" ELSE "loop"]
       /\ res' = IF done \/ used = 0
                 THEN Ok("read_until", read,
                         SubSeq(ru.buf \o Prefix(available, used),
                                Len(ru.buf0) + 1, Len(ru.buf) + used), TRUE)
                 ELSE res
    /\ ReadUntilFrame

\* the caller calls read_until again, with the buffer as it is or cleared
RuCall(delim, clear) ==
    /\ ru.pc = "done" /\ ru.calls < MaxCalls
    /\ ru' = RuEnter(delim, IF clear THEN <<>> ELSE ru.buf, ru.out, ru.calls + 1)
    /\ res' = NoRes
    /\ UNCHANGED cursor
    /\ ReadUntilFrame

NextReadUntil ==
    \/ RuIter
    \/ \E clear \in BOOLEAN : RuCall(ru.delim, clear)

SpecReadUntil == InitReadUntil /\ [][NextReadUntil]_vars

\* C21: repeated read_until calls partition the source.  What the calls
\* have appended is always the part of the source before the position; a
\* finished call has appended the bytes from where it started up to and
\* including the next delimiter, or to the end of the source if there is
\* none, has returned their number, and has appended nothing and returned
\* 0 exactly when it started at end-of-data.
C21_ReadUntilPartitions ==
    /\ ru.out = Prefix(cursor.inner, cursor.pos)
    /\ ru.pc = "done" =>
          LET piece == SubSeq(cursor.inner, ru.pos0 + 1, cursor.pos) IN
          /\ res.ok /\ res.n = Len(piece) /\ res.data = piece
          /\ ru.buf = ru.buf0 \o piece
          /\ \A i \in 1..(Len(piece) - 1) : piece[i] # ru.delim
          /\ piece # <<>> =>
                (piece[Len(piece)] = ru.delim \/ cursor.pos = Len(cursor.inner))
          /\ piece = <<>> <=> ru.pos0 >= Len(cursor.inner)

\* over a source of the shape x-y-z the calls returned 2, 2, 1 and then 0
C21_Witness ==
    /\ ru.pc = "done" /\ ru.calls = 4 /\ res.n = 0
    /\ Len(cursor.inner) = 5 /\ ru.out = cursor.inner
    /\ \A i \in 1..5 : (cursor.inner[i] = ru.delim) <=> (i \in {2, 4})
    /\ ru.buf = <<>>

(***************************************************************************)
(* Read::bytes: the Bytes iterator                                         *)
(***************************************************************************)
\* Option<Result<u8>> values
NoItem == [kind |-> "", byte |-> 0, err |-> ""]

SomeOk(byte) == [kind |-> "Ok", byte |-> byte, err |-> ""]

SomeErr(e) == [kind |-> "Err", byte |-> 0, err |-> e]

NoneItem == [kind |-> "None", byte |-> 0, err |-> ""]

\* Read::bytes: Bytes { inner: self }, and the first call of next.  src is
\* all the reader ever had, out the bytes yielded as Ok items, item the last
\* item yielded, seen the kinds of items yielded so far, reads and intr the
\* reads and the Interrupted results of the call in progress, last the
\* result of its last read
InitBytes ==
    /\ \E rd \in Readers(1) :
          by = [inner |-> rd, src |-> rd.data, out |-> <<>>, item |-> NoItem,
                seen |-> {}, reads |-> 0, intr |-> 0, refills |-> 0,
                last |-> NotYet, pc |-> "loop"]
    /\ res = NoRes
    /\ IdleTake /\ IdleChain /\ IdleReadExact /\ IdleWriteAll /\ IdleCursor
    /\ IdleStreamLen /\ IdleReadUntil /\ IdleSlices /\ IdleSizeHint
    /\ on = "bytes"

BytesFrame ==
    UNCHANGED <<take, tkg, chain, chg, rx, wa, cursor, cug, sl, ru, bs, hints, on>>

\* the result of next as a result record
ItemRes(item) ==
    IF item.kind = "Err" THEN Err("next", item.err, TRUE)
    ELSE IF item.kind = "Ok" THEN Ok("next", 1, <<item.byte>>, TRUE)
    ELSE Ok("next", 0, <<>>, TRUE)

\* the iterator after next returned item
Yield(b, item, r) ==
    [b EXCEPT !.item = item, !.seen = @ \cup {item.kind}, !.last = r,
              !.reads = @ + 1, !.pc = "done",
              !.out = IF item.kind = "Ok" THEN Append(@, item.byte) ELSE @,
              !.inner = IF item.kind = "Ok" THEN Advance(@, 1) ELSE @]

\* a fused iterator: after None or an Err item it yields None without
\* reading
BytesIter_Fused(r) ==
    /\ by.pc = "loop"
    /\ IF by.item.kind \in {"None", "Err"}
       THEN /\ r = NoCall
            /\ by' = [by EXCEPT !.item = NoneItem, !.seen = @ \cup {"None"},
                                !.last = r, !.pc = "done"]
            /\ res' = ItemRes(NoneItem)
       ELSE /\ r \in ReadOutcomes(by.inner, 1)
            /\ (r.err = "Interrupted") => by.intr < MaxIntr
            /\ IF r.ok /\ r.n = 0
               THEN /\ by' = Yield(by, NoneItem, r)
                    /\ res' = ItemRes(NoneItem)
               ELSE IF r.ok
               THEN /\ by' = Yield(by, SomeOk(Head(by.inner.data)), r)
                    /\ res' = ItemRes(SomeOk(Head(by.inner.data)))
               ELSE IF r.err = "Interrupted"
               THEN /\ by' = [by EXCEPT !.intr = @ + 1, !.reads = @ + 1,
                                        !.last = r]
                    /\ UNCHANGED res
               ELSE /\ by' = Yield(by, SomeErr(r.err), r)
                    /\ res' = ItemRes(SomeErr(r.err))
    /\ UNCHANGED <<take, tkg, chain, chg, rx, wa, cursor, cug, sl, ru, bs, hints, on>>

\* an iterator that hands Interrupted to its caller as an Err item
BytesIter_NoRetry(r) ==
    /\ by.pc = "loop"
    /\ r \in ReadOutcomes(by.inner, 1)
    /\ IF r.ok /\ r.n = 0
       THEN /\ by' = Yield(by, NoneItem, r)
            /\ res' = ItemRes(NoneItem)
       ELSE IF r.ok
       THEN /\ by' = Yield(by, SomeOk(Head(by.inner.data)), r)
            /\ res' = ItemRes(SomeOk(Head(by.inner.data)))
       ELSE /\ by' = Yield(by, SomeErr(r.err), r)
            /\ res' = ItemRes(SomeErr(r.err))
    /\ UNCHANGED <<take, tkg, chain, chg, rx, wa, cursor, cug, sl, ru, bs, hints, on>>

\* one iteration of the loop of <Bytes<R> as Iterator>::next:
\* match self.inner.read(slice::from_mut(&mut byte))
BytesIter(r) ==
    /\ by.pc = "loop"
    /\ r \in ReadOutcomes(by.inner, 1)
    /\ (r.err = "Interrupted") => by.intr < MaxIntr
    /\ IF r.ok /\ r.n = 0
       THEN /\ by' = Yield(by, NoneItem, r)
            /\ res' = ItemRes(NoneItem)
       ELSE IF r.ok
       THEN /\ by' = Yield(by, SomeOk(Head(by.inner.data)), r)
            /\ res' = ItemRes(SomeOk(Head(by.inner.data)))
       ELSE IF r.err = "Interrupted"
       THEN /\ by' = [by EXCEPT !.intr = @ + 1, !.reads = @ + 1, !.last = r]
            /\ UNCHANGED res
       ELSE /\ by' = Yield(by, SomeErr(r.err), r)
            /\ res' = ItemRes(SomeErr(r.err))
    /\ BytesFrame

\* the caller calls next again, whatever the last item was
BytesCall ==
    /\ by.pc = "done"
    /\ by' = [by EXCEPT !.pc = "loop", !.reads = 0, !.intr = 0, !.last = NotYet]
    /\ res' = NoRes
    /\ BytesFrame

\* the environment: a reader that is not a slice and had reported
\* end-of-data gets one more byte to deliver
BytesRefill ==
    /\ by.pc = "done"
    /\ by.inner.short /\ by.inner.data = <<>>
    /\ by.refills < MaxRefill
    /\ by' = [by EXCEPT !.inner.data = <<MaxSrc + 1 + by.refills>>,
                        !.src = Append(@, MaxSrc + 1 + by.refills),
                        !.refills = @ + 1]
    /\ UNCHANGED res
    /\ BytesFrame

NextBytes ==
    \/ \E r \in AnyOutcome : BytesIter(r)
    \/ BytesCall
    \/ BytesRefill

SpecBytes == InitBytes /\ [][NextBytes]_vars

\* C22: the bytes yielded as Ok items are the reader's bytes in order, one
\* per item; next returns only after a read of this call: None when the
\* read returned 0, Some(Ok(b)) with b the reader's next byte when it
\* returned 1, Some(Err(e)) when it failed with e other than Interrupted,
\* each time for that one read only; and this holds whatever the previous
\* item was, so a call after None or an Err item reads the reader again.
C22_BytesNext ==
    /\ [](by.out = Prefix(by.src, Len(by.out)))
    /\ [][(by.pc = "loop" /\ by'.pc = "done") =>
            LET r == by'.last IN
            /\ by'.reads = by.reads + 1
            /\ r \in ReadOutcomes(by.inner, 1)
            /\ (r.ok /\ r.n = 0) =>
                  (by'.item = NoneItem /\ by'.inner = by.inner
                   /\ by'.out = by.out)
            /\ (r.ok /\ r.n = 1) =>
                  (by'.item = SomeOk(Head(by.inner.data))
                   /\ by'.inner = Advance(by.inner, 1)
                   /\ by'.out = Append(by.out, Head(by.inner.data)))
            /\ ~r.ok =>
                  (r.err # "Interrupted" /\ by'.item = SomeErr(r.err)
                   /\ by'.inner = by.inner /\ by'.out = by.out)]_vars

\* after a None and an Err item the iterator yielded a byte again
C22_Witness ==
    /\ by.pc = "done" /\ by.item.kind = "Ok"
    /\ by.seen = {"Ok", "None", "Err"}
    /\ by.refills = 1 /\ by.out = by.src /\ Len(by.out) >= 2

(***************************************************************************)
(* The loops that retry Interrupted: read_exact, write_all, Bytes::next.   *)
(* A run exercises one of them; each loop, once entered, keeps running.    *)
(***************************************************************************)
InitRetry == InitReadExact \/ InitWriteAll \/ InitBytes

NextRetry ==
    \/ on = "read_exact" /\ NextReadExact
    \/ on = "write_all" /\ NextWriteAll
    \/ on = "bytes" /\ NextBytes

\* a call in progress goes on: its loop takes its next iteration or returns
RetryFairness ==
    /\ WF_vars(on = "read_exact" /\ ((\E r \in AnyOutcome : RxIter(r)) \/ RxReturn))
    /\ WF_vars(on = "write_all" /\ ((\E r \in AnyOutcome : WaIter(r)) \/ WaReturn
                                    \/ SliceWriteAll))
    /\ WF_vars(on = "bytes" /\ \E r \in AnyOutcome : BytesIter(r))

SpecRetry == InitRetry /\ [][NextRetry]_vars /\ RetryFairness

\* the call of the run is in its loop / has returned
InLoop ==
    \/ on = "read_exact" /\ rx.pc = "loop"
    \/ on = "write_all" /\ wa.pc = "loop"
    \/ on = "bytes" /\ by.pc = "loop"

Returned ==
    \/ on = "read_exact" /\ rx.pc = "done"
    \/ on = "write_all" /\ wa.pc = "done"
    \/ on = "bytes" /\ by.pc = "done"

\* C23: read_exact, write_all and Bytes::next never return Interrupted; an
\* Interrupted result of the underlying read or write leaves the call in
\* its loop with the filled or written prefix, the rest of the buffer and
\* the reader or sink as they were; and with Interrupted results that do
\* not go on for ever, every call returns.
C23_InterruptedRetried ==
    /\ [](res.err # "Interrupted")
    /\ [][/\ (on = "read_exact" /\ rx'.intr # rx.intr /\ rx.pc = "loop") =>
               /\ rx'.pc = "loop" /\ rx'.last.err = "Interrupted"
               /\ rx'.filled = rx.filled /\ rx'.rem = rx.rem /\ rx'.rd = rx.rd
               /\ res' = res
          /\ (on = "write_all" /\ wa'.intr # wa.intr /\ wa.pc = "loop") =>
               /\ wa'.pc = "loop" /\ wa'.last.err = "Interrupted"
               /\ wa'.buf = wa.buf /\ wa'.sink = wa.sink
               /\ res' = res
          /\ (on = "bytes" /\ by'.intr # by.intr /\ by.pc = "loop") =>
               /\ by'.pc = "loop" /\ by'.last.err = "Interrupted"
               /\ by'.inner = by.inner /\ by'.out = by.out
               /\ res' = res]_vars
    /\ InLoop ~> Returned

\* a read_exact that was interrupted after a short read went on to fill
\* its buffer
C23_Witness ==
    /\ on = "read_exact" /\ rx.pc = "done" /\ res.ok
    /\ rx.intr = MaxIntr /\ rx.buflen = MaxDst /\ rx.rd.short
    /\ Len(rx.filled) = rx.buflen

(***************************************************************************)
(* Byte slices: bs.rd is a &[u8] reader, bs.mem[bs.off..] a &mut [u8]      *)
(* writer over a buffer of which the first bs.off bytes were written.      *)
(***************************************************************************)
InitSlices ==
    /\ \E n \in 0..MaxSrc, m \in 0..MaxSrc :
          bs = [rd |-> BytesFrom(1, n), mem |-> Zeros(m), off |-> 0]
    /\ res = Request(NoRes, "", 0)
    /\ IdleTake /\ IdleChain /\ IdleReadExact /\ IdleWriteAll /\ IdleCursor
    /\ IdleStreamLen /\ IdleReadUntil /\ IdleBytes /\ IdleSizeHint
    /\ on = "slice"

SlicesFrame ==
    UNCHANGED <<take, tkg, chain, chg, rx, wa, cursor, cug, sl, ru, by, hints, on>>

\* a read that copies the bytes but forgets `*self = rem`
SliceRead_NoAdvance(len) ==
    LET copy_len == SliceReadLen(bs.rd, len) IN
    /\ bs' = bs
    /\ res' = Request(Ok("read", copy_len, Prefix(bs.rd, copy_len), FALSE), "", len)
    /\ UNCHANGED <<take, tkg, chain, chg, rx, wa, cursor, cug, sl, ru, by, hints, on>>

\* <&[u8] as Read>::read: (src, rem) = self.split_at(copy_len); *self = rem
SliceRead(len) ==
    LET copy_len == SliceReadLen(bs.rd, len) IN
    /\ bs' = [bs EXCEPT !.rd = Suffix(@, copy_len)]
    /\ res' = Request(Ok("read", copy_len, Prefix(bs.rd, copy_len), FALSE), "", len)
    /\ SlicesFrame

\* <&mut [u8] as Write>::write
SliceWriteOp(src) ==
    LET w == MutSliceWrite(bs.mem, bs.off, src) IN
    /\ bs' = [bs EXCEPT !.mem = w.mem, !.off = w.off]
    /\ res' = Request(Ok("write", w.n, src, FALSE), "", Len(src))
    /\ SlicesFrame

\* <&[u8] as BufRead>::fill_buf: Ok(*self)
SliceFillBuf ==
    /\ res' = Request(Ok("fill_buf", Len(bs.rd), bs.rd, FALSE), "", 0)
    /\ UNCHANGED bs
    /\ SlicesFrame

\* <&[u8] as BufRead>::consume: *self = &self[amt..], which needs
\* amt <= self.len()
SliceConsume(amt) ==
    /\ amt <= Len(bs.rd)
    /\ bs' = [bs EXCEPT !.rd = Suffix(@, amt)]
    /\ res' = Request(Ok("consume", amt, Prefix(bs.rd, amt), FALSE), "", amt)
    /\ SlicesFrame

\* the data of a write of m bytes
SliceData(m) == BytesFrom(11, m)

NextSlices ==
    \/ \E len \in 0..MaxDst : SliceRead(len)
    \/ \E m \in 0..MaxDst : SliceWriteOp(SliceData(m))
    \/ SliceFillBuf
    \/ \E amt \in 0..MaxDst : SliceConsume(amt)

SpecSlices == InitSlices /\ [][NextSlices]_vars

(***************************************************************************)
(* The fill_buf / consume protocol on a byte slice, a Cursor, and a Take   *)
(* and a Chain over byte slices.  A run exercises one of them.             *)
(***************************************************************************)
\* a fill_buf that returns the whole container whatever the position
CursorFillBufOp_Whole ==
    /\ res' = Request(Ok("fill_buf", Len(cursor.inner), cursor.inner, FALSE), "", 0)
    /\ UNCHANGED <<cursor, cug>>
    /\ UNCHANGED <<take, tkg, chain, chg, rx, wa, sl, ru, by, bs, hints, on>>

\* <Cursor<T> as BufRead>::fill_buf as a call
CursorFillBufOp ==
    /\ res' = Request(Ok("fill_buf", Len(CursorFillBuf(cursor)),
                         CursorFillBuf(cursor), FALSE), "", 0)
    /\ UNCHANGED <<cursor, cug>>
    /\ UNCHANGED <<take, tkg, chain, chg, rx, wa, sl, ru, by, bs, hints, on>>

\* <Cursor<T> as BufRead>::consume as a call
CursorConsumeOp(amt) ==
    /\ cursor' = CursorConsume(cursor, amt)
    /\ res' = Request(Ok("consume", amt,
                         Prefix(RemainingSlice(cursor),
                                Min(amt, Len(RemainingSlice(cursor)))),
                         FALSE), "", amt)
    /\ CursorFrame

InitFillConsume ==
    \/ InitSlices
    \/ InitCursor
    \/ InitTake /\ ~take.inner.short
    \/ InitChain /\ ~chain.first.short /\ ~chain.second.short

NextFillConsume ==
    \/ on = "slice" /\ SliceFillBuf
    \/ on = "slice" /\ \E amt \in 0..MaxDst : SliceConsume(amt)
    \/ on = "slice" /\ \E len \in 0..MaxDst : SliceRead(len)
    \/ on = "cursor" /\ CursorFillBufOp
    \/ on = "cursor" /\ \E amt \in 0..MaxDst : CursorConsumeOp(amt)
    \/ on = "cursor" /\ \E len \in 0..MaxDst : CursorRead(len)
    \/ on = "take" /\ \E r \in Offered(FillOutcomes(take.inner)) : TakeFillBuf(r)
    \/ on = "take" /\ \E amt \in 0..MaxDst : TakeConsume(amt)
    \/ on = "take" /\ \E len \in 0..MaxDst :
                         \E r \in AnyOutcome : TakeRead(len, r)
    \/ on = "chain" /\ \E r1 \in Offered(FillOutcomes(chain.first)),
                          r2 \in Offered(FillOutcomes(chain.second)) :
                            ChainFillBuf(r1, r2)
    \/ on = "chain" /\ \E amt \in 0..MaxDst : ChainConsume(amt)
    \/ on = "chain" /\ \E len \in 0..MaxDst :
                          \E r1 \in Offered(ReadOutcomes(chain.first, len)),
                             r2 \in Offered(ReadOutcomes(chain.second, len)) :
                                ChainRead(len, r1, r2)

SpecFillConsume == InitFillConsume /\ [][NextFillConsume]_vars

\* the bytes the object of the run has still to deliver, in order
Pending(o, b, c, t, ch) ==
    CASE o = "slice"  -> b.rd
      [] o = "cursor" -> RemainingSlice(c)
      [] o = "take"   -> Prefix(t.inner.data, Min(t.limit, Len(t.inner.data)))
      [] o = "chain"  -> (IF ch.done_first THEN <<>> ELSE ch.first.data)
                            \o ch.second.data

\* C24: fill_buf consumes nothing and returns a leading part of the bytes
\* still to be delivered, empty only when there are none, and the same
\* region when called again; a read after fill_buf returns the leading
\* bytes of that region; consume(amt) with amt within the region of the
\* fill_buf before it removes exactly the leading amt bytes; and every
\* read, and every consume of no more than what is left, delivers the
\* leading bytes of what was left and leaves the rest, so no byte is
\* delivered twice or skipped.
C24_FillConsumeProtocol ==
    [][LET before == Pending(on, bs, cursor, take, chain)
           after  == Pending(on, bs', cursor', take', chain')
           req    == CASE on = "take"  -> tkg'.call.req
                       [] on = "chain" -> chg'.req
                       [] OTHER        -> res'.off
       IN
       /\ res'.op = "fill_buf" =>
             /\ res'.ok /\ after = before
             /\ res'.n <= Len(before) /\ res'.data = Prefix(before, res'.n)
             /\ res'.n = 0 <=> before = <<>>
             /\ res.op = "fill_buf" => res'.data = res.data
       /\ res'.op = "read" =>
             /\ res'.ok
             /\ res'.n <= Len(before) /\ res'.data = Prefix(before, res'.n)
             /\ after = Suffix(before, res'.n)
             /\ res.op = "fill_buf" =>
                   res'.data = Prefix(res.data, Min(req, Len(res.data)))
       /\ (res'.op = "consume" /\ res.op = "fill_buf" /\ req <= Len(res.data)) =>
             /\ res'.data = Prefix(res.data, req)
             /\ after = Suffix(before, req)
       /\ (res'.op = "consume" /\ res'.n <= Len(before)) =>
             (res'.data = Prefix(before, res'.n) /\ after = Suffix(before, res'.n))
      ]_vars

\* a Chain switched to its second stream: part of the region that fill_buf
\* returned was consumed, and the next fill_buf returned the rest of it
C24_Witness ==
    /\ on = "chain" /\ chain.done_first /\ Len(chg.a) > 0
    /\ res.op = "fill_buf" /\ res.n > 0
    /\ chg.buf /\ Len(chg.out) > Len(chg.a)
    /\ res.data = Suffix(chg.b, Len(chg.out) - Len(chg.a))

(***************************************************************************)
(* Cursor's overrides of stream_position and stream_len, next to the       *)
(* default methods of Seek run on the Cursor's seek                        *)
(***************************************************************************)
\* Seek::stream_position (the default method): self.seek(SeekFrom::Current(0))
DefaultStreamPosition(len, pos) == SeekResult(len, pos, "Current", 0)

\* Seek::stream_len (the default method) on a stream of len bytes at pos:
\* the result, the value returned and the position left behind
DefaultStreamLen(len, pos) ==
    LET p1 == DefaultStreamPosition(len, pos)
        old_pos == p1.pos
        p2 == SeekResult(len, old_pos, "End", 0)
        n  == p2.pos
        p3 == SeekResult(len, n, "Start", old_pos)
    IN  IF ~p1.ok THEN [ok |-> FALSE, n |-> 0, pos |-> pos]
        ELSE IF ~p2.ok THEN [ok |-> FALSE, n |-> 0, pos |-> old_pos]
        ELSE IF old_pos # n
        THEN [ok |-> p3.ok, n |-> IF p3.ok THEN n ELSE 0, pos |-> p3.pos]
        ELSE [ok |-> TRUE, n |-> n, pos |-> n]

\* a stream_position that reports a position past the end as the length
CursorStreamPosition_Clamped ==
    /\ res' = Request(Ok("stream_position", Min(cursor.pos, Len(cursor.inner)),
                         <<>>, FALSE), "", 0)
    /\ UNCHANGED cursor
    /\ UNCHANGED <<take, tkg, chain, chg, rx, wa, cug, sl, ru, by, bs, hints, on>>

\* <Cursor<A> as Seek>::stream_position: Ok(self.pos)
CursorStreamPosition ==
    /\ res' = Request(Ok("stream_position", cursor.pos, <<>>, FALSE), "", 0)
    /\ UNCHANGED cursor
    /\ CursorFrame

\* <Cursor<A> as Seek>::stream_len: Ok(self.inner.as_ref().len() as u64)
CursorStreamLen ==
    /\ res' = Request(Ok("stream_len", Len(cursor.inner), <<>>, FALSE), "", 0)
    /\ UNCHANGED cursor
    /\ CursorFrame

NextCursorPos ==
    \/ \E style \in SeekStyles, n \in I64Min..U64Max : CursorSeek(style, n)
    \/ \E n \in 0..U64Max : CursorSetPosition(n)
    \/ CursorStreamPosition
    \/ CursorStreamLen

SpecCursorPos == InitCursor /\ [][NextCursorPos]_vars

\* C25: on a Cursor, stream_position() and seek(Current(0)) both succeed,
\* return the position and leave the cursor as it is, at every position;
\* and stream_len() returns the value and leaves the position that the
\* default stream_len, run on the Cursor's seek, would.
C25_PositionEquivalence ==
    [][LET len == Len(cursor.inner)
           viaSeek == DefaultStreamPosition(len, cursor.pos)
           viaDefault == DefaultStreamLen(len, cursor.pos)
       IN
       /\ res'.op = "stream_position" =>
             /\ res'.ok /\ viaSeek.ok
             /\ res'.n = viaSeek.pos /\ cursor'.pos = viaSeek.pos
             /\ res'.n = cursor.pos /\ cursor' = cursor
       /\ (res'.op = "seek" /\ res'.style = "Current" /\ res'.off = 0) =>
             (res'.ok /\ res'.n = cursor.pos /\ cursor' = cursor)
       /\ res'.op = "stream_len" =>
             /\ res'.ok /\ viaDefault.ok
             /\ res'.n = viaDefault.n /\ cursor'.pos = viaDefault.pos
             /\ cursor' = cursor]_vars

\* stream_position at u64::MAX, far past the end of a non-empty container
C25_Witness ==
    /\ res.op = "stream_position" /\ res.ok /\ res.n = U64Max
    /\ cursor.pos = U64Max /\ Len(cursor.inner) > 0

(***************************************************************************)
(* The overridden vectored reads and writes of byte slices and Cursor      *)
(***************************************************************************)
\* buffers nothing was copied into
Untouched(bufs) == [i \in 1..Len(bufs) |-> <<>>]

\* <&[u8] as Read>::read_vectored: read into each buffer, break once the
\* slice is empty; the count, what went into each buffer, and the slice left
RECURSIVE SliceReadV(_, _)
SliceReadV(slice, bufs) ==
    IF bufs = <<>> THEN [n |-> 0, fills |-> <<>>, rem |-> slice]
    ELSE LET k   == SliceReadLen(slice, Head(bufs))
             rem == Suffix(slice, k)
         IN  IF rem = <<>>
             THEN [n |-> k, fills |-> <<Prefix(slice, k)>> \o Untouched(Tail(bufs)),
                   rem |-> rem]
             ELSE LET t == SliceReadV(rem, Tail(bufs)) IN
                  [n |-> k + t.n, fills |-> <<Prefix(slice, k)>> \o t.fills,
                   rem |-> t.rem]

\* a read_vectored that stops at the first buffer it read nothing into
RECURSIVE CursorReadV_StopsAtZero(_, _)
CursorReadV_StopsAtZero(c, bufs) ==
    IF bufs = <<>> THEN [n |-> 0, fills |-> <<>>, pos |-> c.pos]
    ELSE LET rs == RemainingSlice(c)
             k  == SliceReadLen(rs, Head(bufs))
             c1 == [c EXCEPT !.pos = (@ + k) % U64Modulus]
         IN  IF k = 0
             THEN [n |-> k, fills |-> <<Prefix(rs, k)>> \o Untouched(Tail(bufs)),
                   pos |-> c1.pos]
             ELSE LET t == CursorReadV_StopsAtZero(c1, Tail(bufs)) IN
                  [n |-> k + t.n, fills |-> <<Prefix(rs, k)>> \o t.fills,
                   pos |-> t.pos]

\* <Cursor<T> as Read>::read_vectored: self.read(buf) for each buffer, break
\* after a read that did not fill its buffer
RECURSIVE CursorReadV(_, _)
CursorReadV(c, bufs) ==
    IF bufs = <<>> THEN [n |-> 0, fills |-> <<>>, pos |-> c.pos]
    ELSE LET rs == RemainingSlice(c)
             k  == SliceReadLen(rs, Head(bufs))
             c1 == [c EXCEPT !.pos = (@ + k) % U64Modulus]
         IN  IF k < Head(bufs)
             THEN [n |-> k, fills |-> <<Prefix(rs, k)>> \o Untouched(Tail(bufs)),
                   pos |-> c1.pos]
             ELSE LET t == CursorReadV(c1, Tail(bufs)) IN
                  [n |-> k + t.n, fills |-> <<Prefix(rs, k)>> \o t.fills,
                   pos |-> t.pos]

\* <&mut [u8] as Write>::write_vectored: write each buffer, break once the
\* slice is empty
RECURSIVE MutSliceWriteV(_, _, _)
MutSliceWriteV(mem, off, bufs) ==
    IF bufs = <<>> THEN [n |-> 0, mem |-> mem, off |-> off]
    ELSE LET w == MutSliceWrite(mem, off, Head(bufs)) IN
         IF Len(w.mem) - w.off = 0 THEN w
         ELSE LET t == MutSliceWriteV(w.mem, w.off, Tail(bufs)) IN
              [n |-> w.n + t.n, mem |-> t.mem, off |-> t.off]

\* slice_write_vectored: slice_write each buffer, break after a write that
\* did not take its whole buffer
RECURSIVE SliceWriteVectored(_, _, _)
SliceWriteVectored(pos, slice, bufs) ==
    IF bufs = <<>> THEN [n |-> 0, inner |-> slice, pos |-> pos]
    ELSE LET w == SliceWrite(pos, slice, Head(bufs)) IN
         IF w.n < Len(Head(bufs)) THEN w
         ELSE LET t == SliceWriteVectored(w.pos, w.inner, Tail(bufs)) IN
              [n |-> w.n + t.n, inner |-> t.inner, pos |-> t.pos]

\* the buffers of a vectored write with the lengths lens, buffer i holding
\* a byte of its own
WriteBufs(lens) == [i \in 1..Len(lens) |-> [j \in 1..lens[i] |-> 10 + i]]

\* a vectored call's result with the buffers the caller holds, the buffers
\* of the call and what went into each
Vectored(r, lens, bufs, fills) ==
    r @@ [lens |-> lens, bufs |-> bufs, fills |-> fills]

RECURSIVE Concat(_)
Concat(seqs) == IF seqs = <<>> THEN <<>> ELSE Head(seqs) \o Concat(Tail(seqs))

SliceReadVectoredOp(bufs) ==
    LET v == SliceReadV(bs.rd, bufs) IN
    /\ bs' = [bs EXCEPT !.rd = v.rem]
    /\ res' = Vectored(Request(Ok("read_vectored", v.n, Concat(v.fills), FALSE),
                               "", SumLens(bufs)), bufs, bufs, v.fills)
    /\ SlicesFrame

SliceWriteVectoredOp(bufs) ==
    LET v == MutSliceWriteV(bs.mem, bs.off, bufs) IN
    /\ bs' = [bs EXCEPT !.mem = v.mem, !.off = v.off]
    /\ res' = Vectored(Request(Ok("write_vectored", v.n, Concat(bufs), FALSE),
                               "", Len(Concat(bufs))), [i \in 1..Len(bufs) |-> Len(bufs[i])], bufs, <<>>)
    /\ SlicesFrame

CursorReadVectored(bufs) ==
    LET v == CursorReadV(cursor, bufs) IN
    /\ cursor' = [cursor EXCEPT !.pos = v.pos]
    /\ res' = Vectored(Request(Ok("read_vectored", v.n, Concat(v.fills), FALSE),
                               "", SumLens(bufs)), bufs, bufs, v.fills)
    /\ CursorFrame

\* <Cursor<&mut [u8]> as Write>::write_vectored
CursorWriteVectored(bufs) ==
    LET v == SliceWriteVectored(cursor.pos, cursor.inner, bufs) IN
    /\ cursor' = [inner |-> v.inner, pos |-> v.pos]
    /\ res' = Vectored(Request(Ok("write_vectored", v.n, Concat(bufs), FALSE),
                               "", Len(Concat(bufs))), [i \in 1..Len(bufs) |-> Len(bufs[i])], bufs, <<>>)
    /\ CursorFrame

\* a run is over a slice to read, a slice to write, or a Cursor that
\* set_position left anywhere up to one past the end of its container; the
\* caller holds buffers of the lengths lens and passes them to every call
InitVectored ==
    /\ \E lens \in BufLists :
          res = Vectored(Request(NoRes, "", 0), lens, <<>>, <<>>)
    /\ \/ /\ \E n \in 0..MaxSrc, m \in 0..MaxSrc :
                /\ bs = [rd |-> BytesFrom(1, n), mem |-> Zeros(m), off |-> 0]
                /\ n = 0 \/ m = 0
          /\ IdleCursor
          /\ on = "slice"
       \/ /\ \E n \in 0..MaxSrc, p \in 0..(MaxSrc + 1) :
                cursor = [inner |-> BytesFrom(1, n), pos |-> p]
          /\ cug = [log |-> <<>>, fits |-> TRUE]
          /\ IdleSlices
          /\ on = "cursor"
    /\ IdleTake /\ IdleChain /\ IdleReadExact /\ IdleWriteAll /\ IdleStreamLen
    /\ IdleReadUntil /\ IdleBytes /\ IdleSizeHint

NextVectored ==
    \/ on = "slice" /\ SliceReadVectoredOp(res.lens)
    \/ on = "slice" /\ SliceWriteVectoredOp(WriteBufs(res.lens))
    \/ on = "cursor" /\ CursorReadVectored(res.lens)
    \/ on = "cursor" /\ CursorWriteVectored(WriteBufs(res.lens))

SpecVectored == InitVectored /\ [][NextVectored]_vars

\* C26: read_vectored(bufs) on a byte slice and on a Cursor returns the
\* count, and leaves the source where, one read into a buffer as long as
\* all of bufs together would, and the buffers hold the bytes that read
\* delivers, each buffer its own stretch of it in order; write_vectored(bufs)
\* on a mutable byte slice and on a Cursor returns the count and leaves the
\* bytes and the position of one write of the concatenation of bufs.
C26_VectoredAsOne ==
    [][/\ res'.op = "read_vectored" =>
             LET src  == IF on = "slice" THEN bs.rd ELSE RemainingSlice(cursor)
                 bufs == res'.bufs
                 n    == SliceReadLen(src, SumLens(bufs))
                 data == Prefix(src, n)
             IN  /\ res'.ok /\ res'.n = n
                 /\ Concat(res'.fills) = data
                 /\ Len(res'.fills) = Len(bufs)
                 /\ \A i \in 1..Len(bufs) :
                       LET o == SumLens(Prefix(bufs, i - 1)) IN
                       res'.fills[i] = SubSeq(data, Min(o, n) + 1, Min(o + bufs[i], n))
                 /\ on = "slice" => bs' = [bs EXCEPT !.rd = Suffix(src, n)]
                 /\ on = "cursor" =>
                       cursor' = [cursor EXCEPT !.pos = cursor.pos + n]
       /\ res'.op = "write_vectored" =>
             LET data == Concat(res'.bufs) IN
             /\ res'.ok
             /\ on = "slice" =>
                   LET w == MutSliceWrite(bs.mem, bs.off, data) IN
                   res'.n = w.n /\ bs' = [bs EXCEPT !.mem = w.mem, !.off = w.off]
             /\ on = "cursor" =>
                   LET w == SliceWrite(cursor.pos, cursor.inner, data) IN
                   res'.n = w.n /\ cursor' = [inner |-> w.inner, pos |-> w.pos]
      ]_vars

\* a Cursor read into an empty buffer followed by a buffer that the
\* container's end cut short
C26_Witness ==
    /\ on = "cursor" /\ res.op = "read_vectored"
    /\ Len(res.bufs) = 2 /\ res.bufs[1] = 0 /\ res.bufs[2] = 2
    /\ res.n = 1 /\ res.fills = << <<>>, <<MaxSrc>> >>
    /\ cursor.pos = Len(cursor.inner)

(***************************************************************************)
(* Chain::size_hint                                                        *)
(***************************************************************************)
\* Option<usize>::Some
Some(x) == x

\* usize::MAX and isize::MAX, the word being the machine word
UsizeMax == U64Max
IsizeMax == I64Max

SizeHint(min, max) == [min |-> min, max |-> max]

\* the estimates of the streams a Chain is built from: a byte slice's is
\* its length, which never exceeds isize::MAX, and the estimate of a stream
\* that keeps the provided size_hint is (0, None)
LeafHints ==
    {SizeHint(n, Some(n)) : n \in 0..IsizeMax} \cup {SizeHint(0, None)}

\* x.checked_add(y) on usize
CheckedAdd(x, y) == IF x + y > UsizeMax THEN None ELSE Some(x + y)

\* max1.map(|x| max2.map(|y| x.checked_add(y)).flatten()).flatten()
ChainUpper(max1, max2) ==
    IF max1 = None THEN None
    ELSE IF max2 = None THEN None
    ELSE CheckedAdd(max1, max2)

\* min1 + min2 on usize: an overflowing sum panics in a build with overflow
\* checks and wraps in one without
ChainLower(min1, min2) ==
    IF min1 + min2 <= UsizeMax
    THEN {[panic |-> FALSE, v |-> min1 + min2]}
    ELSE {[panic |-> TRUE, v |-> 0],
          [panic |-> FALSE, v |-> (min1 + min2) % (UsizeMax + 1)]}

SizeHintFrame == UNCHANGED <<take, tkg, chain, chg, rx, wa, cursor, cug, sl,
                 ru, by, bs, on, res>>

\* first.chain(second) of two streams
InitSizeHint ==
    /\ \E h1 \in LeafHints, h2 \in LeafHints :
          hints = [first |-> h1, second |-> h2, out |-> SizeHint(0, None),
                   pc |-> "built"]
    /\ res = NoRes
    /\ IdleTake /\ IdleChain /\ IdleReadExact /\ IdleWriteAll /\ IdleCursor
    /\ IdleStreamLen /\ IdleReadUntil /\ IdleBytes /\ IdleSlices
    /\ on = "size_hint"

\* <Chain<T, U> as Read>::size_hint
ChainSizeHint ==
    /\ hints.pc = "built"
    /\ \E lo \in ChainLower(hints.first.min, hints.second.min) :
          hints' = [hints EXCEPT
                      !.out = SizeHint(lo.v, ChainUpper(hints.first.max,
                                                        hints.second.max)),
                      !.pc  = IF lo.panic THEN "panicked" ELSE "returned"]
    /\ SizeHintFrame

\* the chain becomes the first stream of a longer chain
ChainAgain ==
    /\ hints.pc = "returned"
    /\ \E h \in LeafHints :
          hints' = [first |-> hints.out, second |-> h, out |-> SizeHint(0, None),
                    pc |-> "built"]
    /\ SizeHintFrame

NextSizeHint ==
    \/ ChainSizeHint
    \/ ChainAgain

SpecSizeHint == InitSizeHint /\ [][NextSizeHint]_vars

\* C27: a call of Chain's size_hint returns, as upper bound, None when
\* either stream's upper bound is None or their sum exceeds the word size
\* and their sum otherwise, and as lower bound the sum of both lower bounds.
C27_ChainSizeHint ==
    hints.pc \in {"returned", "panicked"} =>
        LET h1 == hints.first
            h2 == hints.second
        IN  /\ hints.pc = "returned"
            /\ hints.out.max =
                  (IF h1.max = None \/ h2.max = None THEN None
                   ELSE IF h1.max + h2.max > UsizeMax THEN None
                   ELSE Some(h1.max + h2.max))
            /\ hints.out.min = h1.min + h2.min

(***************************************************************************)
(* The read/write contract on byte slices                                  *)
(***************************************************************************)
\* C28: read(dst) on a byte slice returns Ok(n) with n the smaller of
\* dst.len and the bytes remaining, so 0 <= n <= dst.len, delivers the n
\* leading bytes and advances the slice by n; write(src) on a mutable byte
\* slice returns Ok(n) with n the smaller of src.len and the capacity
\* remaining, stores the n leading bytes of src where the slice began and
\* advances by n; neither call returns an error, and for a non-empty buffer
\* each returns 0 exactly when the slice is exhausted.
C28_SliceContract ==
    [][/\ res'.op = "read" =>
             LET len == res'.off
                 n   == Min(len, Len(bs.rd))
             IN  /\ res'.ok /\ res'.n = n
                 /\ 0 <= res'.n /\ res'.n <= len
                 /\ res'.data = Prefix(bs.rd, n)
                 /\ bs' = [bs EXCEPT !.rd = Suffix(bs.rd, n)]
                 /\ len > 0 => (res'.n = 0 <=> bs.rd = <<>>)
       /\ res'.op = "write" =>
             LET src == res'.data
                 cap == Len(bs.mem) - bs.off
                 n   == Min(Len(src), cap)
             IN  /\ res'.ok /\ res'.n = n
                 /\ 0 <= res'.n /\ res'.n <= Len(src)
                 /\ Len(bs'.mem) = Len(bs.mem)
                 /\ \A i \in 1..Len(bs.mem) :
                       bs'.mem[i] = IF bs.off < i /\ i <= bs.off + n
                                    THEN src[i - bs.off]
                                    ELSE bs.mem[i]
                 /\ bs'.off = bs.off + n
                 /\ bs'.rd = bs.rd
                 /\ Len(src) > 0 => (res'.n = 0 <=> cap = 0)
      ]_vars

\* a write of a non-empty buffer returned 0 on a slice that earlier writes
\* filled, the slice to read being read to its end
C28_Witness ==
    /\ on = "slice" /\ res.op = "write" /\ res.ok
    /\ res.n = 0 /\ res.off = MaxDst
    /\ Len(bs.mem) = MaxSrc /\ bs.off = MaxSrc
    /\ bs.mem[1] # 0
    /\ bs.rd = <<>>

(***************************************************************************)
(* A failed seek of a Cursor                                               *)
(***************************************************************************)
\* C29: a seek of a Cursor that fails is a seek from the current position
\* or from the end, fails with InvalidInput, and leaves the position and the
\* container as they were before the call, so that whatever is called next
\* starts from the state the failed seek started from.
C29_FailedSeekNoEffect ==
    [][res'.op = "seek" /\ ~res'.ok =>
          /\ res'.style \in {"Current", "End"}
          /\ res'.err = "InvalidInput"
          /\ cursor'.pos = cursor.pos
          /\ cursor'.inner = cursor.inner
      ]_vars

\* a seek to before the start failed on a Cursor in the middle of its
\* container
C29_Witness ==
    /\ on = "cursor" /\ res.op = "seek" /\ ~res.ok
    /\ res.style = "Current" /\ res.off < 0
    /\ cursor.pos = 2 /\ Len(cursor.inner) = MaxSrc

(***************************************************************************)
(* read_exact on a byte slice and on a Cursor                              *)
(***************************************************************************)
\* what a buffer of len bytes holds before the call: no byte of any source
Stale(len) == [i \in 1..len |-> 0]

\* a read_exact that reads what there is before it finds the source short,
\* as the provided loop over read does
SliceReadExact_Loop(slice, buf) ==
    IF Len(buf) > Len(slice)
    THEN [ok |-> FALSE, buf |-> slice \o Suffix(buf, Len(slice)), rem |-> <<>>]
    ELSE [ok |-> TRUE, buf |-> Prefix(slice, Len(buf)),
          rem |-> Suffix(slice, Len(buf))]

\* <&[u8] as Read>::read_exact: the result, the buffer and the slice after
\* the call
SliceReadExact(slice, buf) ==
    IF Len(buf) > Len(slice)
    THEN [ok |-> FALSE, buf |-> buf, rem |-> slice]
    ELSE [ok |-> TRUE, buf |-> Prefix(slice, Len(buf)),
          rem |-> Suffix(slice, Len(buf))]

\* the result of a read_exact call with the buffer as the call left it
ExactRes(r, buf) ==
    Request(IF r.ok THEN Ok("read_exact", Len(buf), r.buf, FALSE)
            ELSE Err("read_exact", "UnexpectedEof", FALSE), "", Len(buf))
    @@ [buf |-> r.buf]

SliceReadExactOp(len) ==
    LET r == SliceReadExact(bs.rd, Stale(len)) IN
    /\ bs' = [bs EXCEPT !.rd = r.rem]
    /\ res' = ExactRes(r, Stale(len))
    /\ SlicesFrame

\* a read_exact that adds buf.len() to the position before it looks at the
\* result
CursorReadExact_AdvancesFirst(len) ==
    LET r == SliceReadExact(RemainingSlice(cursor), Stale(len)) IN
    /\ cursor' = [cursor EXCEPT !.pos = (@ + len) % U64Modulus]
    /\ res' = ExactRes(r, Stale(len))
    /\ UNCHANGED <<take, tkg, chain, chg, rx, wa, cug, sl,
                 ru, by, bs, hints, on>>

\* <Cursor<T> as Read>::read_exact: read_exact on remaining_slice(), `?`,
\* then self.pos += n
CursorReadExact(len) ==
    LET r == SliceReadExact(RemainingSlice(cursor), Stale(len)) IN
    /\ cursor' = [cursor EXCEPT !.pos = IF r.ok THEN (@ + len) % U64Modulus ELSE @]
    /\ res' = ExactRes(r, Stale(len))
    /\ CursorFrame

InitExact ==
    \/ InitSlices
    \/ InitCursor

NextExact ==
    \/ on = "slice" /\ \E len \in 0..MaxDst : SliceReadExactOp(len)
    \/ on = "slice" /\ \E len \in 0..MaxDst : SliceRead(len)
    \/ on = "cursor" /\ \E len \in 0..MaxDst : CursorReadExact(len)
    \/ on = "cursor" /\ \E len \in 0..MaxDst : CursorRead(len)
    \/ on = "cursor" /\ \E n \in 0..(MaxSrc + 1) : CursorSetPosition(n)

SpecExact == InitExact /\ [][NextExact]_vars

\* C30: read_exact(buf) on a Cursor and on a byte slice, with buf.len() at
\* most the bytes remaining, fills buf with exactly the next buf.len() bytes
\* and advances by buf.len(); with buf.len() above the bytes remaining it
\* fails with UnexpectedEof, buf holding what it held before and the
\* position (the slice) being where it was, no remaining byte consumed.
C30_ReadExactAllOrNothing ==
    [][res'.op = "read_exact" =>
          LET len == res'.off
              src == IF on = "slice" THEN bs.rd ELSE RemainingSlice(cursor)
          IN  IF len <= Len(src)
              THEN /\ res'.ok
                   /\ res'.buf = Prefix(src, len)
                   /\ on = "slice" => bs' = [bs EXCEPT !.rd = Suffix(src, len)]
                   /\ on = "cursor" =>
                         cursor' = [cursor EXCEPT !.pos = cursor.pos + len]
              ELSE /\ ~res'.ok /\ res'.err = "UnexpectedEof"
                   /\ res'.buf = Stale(len)
                   /\ on = "slice" => bs' = bs
                   /\ on = "cursor" => cursor' = cursor
      ]_vars

\* a Cursor with one byte left refused a read_exact of two bytes
C30_Witness ==
    /\ on = "cursor" /\ res.op = "read_exact" /\ ~res.ok
    /\ res.off = 2 /\ res.buf = Stale(2)
    /\ Len(cursor.inner) = MaxSrc /\ cursor.pos = MaxSrc - 1

(***************************************************************************)
(* The slice's write_all against the provided loop                         *)
(***************************************************************************)
\* Write::write_all, the provided loop, run over <&mut [u8] as Write>::write
\* on mem[off..]: the result and the slice after the call.  The slice's
\* write returns no error, so of the match only Ok(0) and Ok(n) are taken.
RECURSIVE DefaultWriteAll(_, _, _)
DefaultWriteAll(mem, off, buf) ==
    IF buf = <<>> THEN [ok |-> TRUE, err |-> "", mem |-> mem, off |-> off]
    ELSE LET w == MutSliceWrite(mem, off, buf) IN
         IF w.n = 0
         THEN [ok |-> FALSE, err |-> "WriteZero", mem |-> w.mem, off |-> w.off]
         ELSE DefaultWriteAll(w.mem, w.off, Suffix(buf, w.n))

\* C31: write_all(data) on a mutable byte slice returns what the provided
\* write_all loop over the slice's write returns for the same slice and
\* data, Ok or WriteZero, and leaves the slice's bytes and its remaining
\* part as that loop leaves them, for empty data and for data longer than
\* the capacity too.
C31_SliceWriteAllAsLoop ==
    [][(wa.pc = "loop" /\ wa.sink.kind = "slice" /\ wa'.pc = "done") =>
          LET g == DefaultWriteAll(wa.sink.mem, wa.sink.off, wa.data) IN
          /\ res'.ok = g.ok
          /\ res'.err = g.err
          /\ wa'.sink.mem = g.mem
          /\ wa'.sink.off = g.off
      ]_vars

\* write_all of empty data returned Ok on a slice that earlier calls filled
C31_Witness ==
    /\ on = "write_all" /\ wa.pc = "done" /\ wa.sink.kind = "slice"
    /\ wa.data = <<>> /\ res.ok
    /\ wa.from = MaxSrc /\ wa.cap0 = 0

(***************************************************************************)
(* A failed write_all on a fixed-capacity sink                             *)
(***************************************************************************)
\* the write_all call on a Cursor or a mutable byte slice ended in WriteZero
WriteZeroOnFixed ==
    /\ wa.pc = "done" /\ wa.sink.kind \in {"slice", "cursor"}
    /\ res.err = "WriteZero"

\* C32 as stated: when write_all(data) on a Cursor over a fixed-size region
\* or on a mutable byte slice fails with WriteZero, the container holds the
\* prefix of data that fit, in order, from the original position on, and
\* the cursor position equals the container length (the slice has no
\* capacity left).
C32_FailureNotAtomic ==
    WriteZeroOnFixed =>
       /\ Stored(wa.sink, wa.from, wa.cap0) = Prefix(wa.data, wa.cap0)
       /\ wa.sink.kind = "cursor" => wa.sink.pos = Len(wa.sink.inner)
       /\ wa.sink.kind = "slice" => wa.sink.off = Len(wa.sink.mem)

\* C32, amended: when write_all(data) on a Cursor over a fixed-size region
\* or on a mutable byte slice fails with WriteZero, the container holds the
\* prefix of data that fit, in order, from the original position on, and
\* no capacity is left: the slice is empty, and the cursor position equals
\* the container length if any byte fit; if none fit, the one write of the
\* call moved nothing, so a position at the end is at the end and a position
\* beyond the end is still where it was.
C32_FailureNotAtomic_Amended ==
    /\ [](WriteZeroOnFixed =>
            /\ Stored(wa.sink, wa.from, wa.cap0) = Prefix(wa.data, wa.cap0)
            /\ Capacity(wa.sink) = 0
            /\ wa.sink.kind = "slice" => wa.sink.off = Len(wa.sink.mem)
            /\ wa.sink.kind = "cursor" =>
                  /\ wa.sink.pos >= Len(wa.sink.inner)
                  /\ wa.cap0 > 0 => wa.sink.pos = Len(wa.sink.inner)
                  /\ wa.cap0 = 0 => wa.calls = 1)
    /\ [][(wa.pc = "loop" /\ wa.sink.kind = "cursor" /\ wa'.pc = "done"
           /\ res'.err = "WriteZero") => wa'.sink = wa.sink]_vars

\* a Cursor in the middle of its region took the part of data that fit and
\* then failed
C32_Witness ==
    /\ WriteZeroOnFixed /\ wa.sink.kind = "cursor"
    /\ wa.from = 1 /\ wa.cap0 = MaxSrc - 1 /\ Len(wa.data) = MaxSrc
    /\ wa.sink.pos = MaxSrc /\ wa.calls = 2

(***************************************************************************)
(* A Cursor under all of its calls                                         *)
(***************************************************************************)
\* <Cursor<&mut [u8]> as Write>::write: slice_write(&mut self.pos, self.inner, buf)
CursorWritePlain(src) ==
    LET w == SliceWrite(cursor.pos, cursor.inner, src) IN
    /\ cursor' = [inner |-> w.inner, pos |-> w.pos]
    /\ res' = Request(Ok("write", w.n, src, FALSE), "", Len(src))
    /\ CursorFrame

\* positions and offsets the callers of a run pass to set_position and seek
CallerOffsets == {I64Min, 0, MaxSrc + 1, U64Max}

\* buffer arrays of the vectored calls of a run: every buffer empty or of
\* the largest length
CallerBufs == {b \in BufLists : Len(b) = MaxBufs /\ \A i \in 1..Len(b) : b[i] \in {0, MaxDst}}

\* the m bytes a caller of the run writes: a byte no container starts with
CallerData(m) == [i \in 1..m |-> MaxSrc + 1]

\* consume is called after fill_buf, with no more than the region it returned
NextCursorCalls ==
    \/ \E len \in 0..MaxDst : CursorRead(len)
    \/ \E len \in 0..MaxDst : CursorReadExact(len)
    \/ \E bufs \in CallerBufs : CursorReadVectored(bufs)
    \/ \E m \in 0..MaxDst : CursorWritePlain(CallerData(m))
    \/ \E lens \in CallerBufs :
          CursorWriteVectored([i \in 1..Len(lens) |-> CallerData(lens[i])])
    \/ CursorFillBufOp
    \/ res.op = "fill_buf" /\ \E amt \in 0..res.n : CursorConsumeOp(amt)
    \/ \E style \in SeekStyles, n \in CallerOffsets : CursorSeek(style, n)
    \/ \E n \in CallerOffsets \cap 0..U64Max : CursorSetPosition(n)
    \/ CursorStreamLen
    \/ CursorStreamPosition

SpecCursorCalls == InitCursor /\ [][NextCursorCalls]_vars

TakeRegion(t) ==
    IF t.limit = 0 THEN <<>>
    ELSE Prefix(t.inner.data, Min(Len(t.inner.data), t.limit))

\* <Take<T> as BufRead>::consume: the Take after consume(amt)
TakeConsumed(t, amt) ==
    LET capped == Min(amt, t.limit) IN
    [inner |-> Advance(t.inner, capped), limit |-> t.limit - capped]

\* C34: read(dst) on a Cursor, and on a Take over a reader that delivers
\* what it has as a Cursor or a byte slice does, returns the count, delivers
\* the bytes and leaves the position (the limit and the wrapped reader) that
\* fill_buf, a copy of the first n = min(dst.len, region.len) bytes of its
\* region, and consume(n) would.
C34_ReadAsFillConsume ==
    [][res'.op = "read" =>
          /\ on = "cursor" =>
                LET region == CursorFillBuf(cursor)
                    n      == Min(res'.off, Len(region))
                IN  /\ res'.ok /\ res'.n = n
                    /\ res'.data = Prefix(region, n)
                    /\ cursor' = CursorConsume(cursor, n)
          /\ on = "take" =>
                LET region == TakeRegion(take)
                    n      == Min(tkg'.call.req, Len(region))
                IN  /\ res'.ok /\ res'.n = n
                    /\ res'.data = Prefix(region, n)
                    /\ take' = TakeConsumed(take, n)
      ]_vars

\* a read on a Take that the limit cut short of both the buffer and the
\* wrapped reader's bytes
C34_Witness ==
    /\ on = "take" /\ res.op = "read" /\ res.n > 0
    /\ tkg.call.req > res.n
    /\ take.limit = 0 /\ take.inner.data # <<>>

(***************************************************************************)
(* What a Take pulls from its reader                                       *)
(***************************************************************************)
\* Take::into_inner: the wrapped reader as the Take leaves it
TakeIntoInner(t) == t.inner

\* bytes the wrapped reader has been advanced by since the Take was built
TakePulled == Len(tkg.src) - Len(take.inner.data)

\* C35: while set_limit has not been called, the limit has gone down from
\* its initial value by exactly the number of bytes the wrapped reader has
\* been advanced, which is never more than the initial limit; no
\* subtraction has taken the limit below 0; and into_inner returns the
\* reader at the first byte that was not delivered.
C35_NeverOverPulls ==
    ~tkg.reset =>
       /\ tkg.l0 - take.limit = TakePulled
       /\ TakePulled <= tkg.l0
       /\ take.limit >= 0
       /\ TakePulled = Len(tkg.out)
       /\ TakeIntoInner(take).data = Suffix(tkg.src, Len(tkg.out))

\* a Take over a reader with more bytes than the limit, its limit used up
\* by reads and a consume
C35_Witness ==
    /\ on = "take" /\ ~tkg.reset
    /\ tkg.l0 = MaxSrc - 1 /\ Len(tkg.src) = MaxSrc
    /\ take.limit = 0 /\ TakePulled = tkg.l0
    /\ res.op = "consume" /\ res.n = 1

(***************************************************************************)
(* What the calls on a Cursor leave alone                                  *)
(***************************************************************************)
\* C36: read, read_exact, fill_buf, consume, seek, set_position, stream_len
\* and stream_position leave the container's bytes and length as they
\* were; a write that returns n leaves the length as it was and every byte
\* outside the n places from min(position, len) on as it was.
C36_CursorFrame ==
    [][/\ res'.op \in {"read", "read_exact", "fill_buf", "consume", "seek",
                       "set_position", "stream_len", "stream_position"} =>
             cursor'.inner = cursor.inner
       /\ res'.op = "write" =>
             LET len == Len(cursor.inner)
                 p   == Min(cursor.pos, len)
             IN  /\ Len(cursor'.inner) = len
                 /\ res'.n <= len - p
                 /\ \A i \in 1..len :
                       (i <= p \/ i > p + res'.n) =>
                          cursor'.inner[i] = cursor.inner[i]
      ]_vars

\* a write of two bytes at the last place of the container took one and
\* left the bytes before it as they were
C36_Witness ==
    /\ on = "cursor" /\ res.op = "write" /\ res.off = 2 /\ res.n = 1
    /\ Len(cursor.inner) = MaxSrc /\ cursor.pos = MaxSrc
    /\ cursor.inner = BytesFrom(1, MaxSrc - 1) \o CallerData(1)

====
